---- MODULE Spec2Model ----
(***************************************************************************)
(* Model of the on-device processing core of secure-scribe:                *)
(*   - services/anonymization.ts  (PII detection, redaction, inversion)    *)
(*   - services/processing.ts     (runProcessingPipeline)                  *)
(*   - db/operations/recordings   (file-based updateRecording)             *)
(*   - services/whisper/whisperInference.ts (model load singleton)         *)
(*   - services/whisper/config.ts (WAV decoding and resampling)            *)
(*   - services/gliner/tokenizer.ts (word-level BPE / WordPiece encoding)  *)
(* Texts are sequences of one-character strings so that the regular        *)
(* expressions of the source can be evaluated character by character.      *)
(***************************************************************************)
EXTENDS Integers, Sequences, FiniteSets

VARIABLES
    \* ---- anonymization harness (pure functions applied to sampled texts)
    piiPc,        \* "off" | "input" | "anonymized" | "reversed"
    piiText,      \* the sampled input text
    piiResult,    \* AnonymizationResult of the last anonymizeTranscription call
    piiReversed,  \* result of reversePIIMappings on piiResult
    \* ---- persisted recording (file-based storage) and its surroundings
    meta,         \* recordings/{timestamp}.json
    files,        \* transcription, segments, anonymized text, LLM response files
    audioOnDisk,  \* an audio file lies in the recordings folder
    project,      \* the project configuration, or None
    mistralKey,   \* a Mistral API key is configured
    started,      \* number of pipeline runs started so far
    \* ---- pipeline runs (one per slot, runs of different slots overlap)
    pc,           \* position of each run
    opt,          \* PipelineOptions of each run
    loc,          \* local variables of each run
    trace,        \* history of each run: what it called and wrote
    \* ---- whisperInference.ts module state and its callers
    platformWeb,  \* Platform.OS === 'web'
    linked,       \* isExecutorchLinked()
    modelOnDisk,  \* getWhisperModelPaths() finds the model files
    sttModule,    \* the loaded SpeechToTextModule, or None
    loadedVariant,\* variant recorded with the loaded module, or None
    isLoading,    \* a load is in progress
    lastLoadError,\* diagnostic of the last ensureWhisperLoaded
    wPc,          \* position of each caller of ensureWhisperLoaded
    wLoc,         \* locals of each call: paths, variant, module
    wTrace,       \* history of each caller's last call
    tPc,          \* position of each caller inside transcribeWithWhisper
    tHandle,      \* the module a caller's transcribe call runs on
    unloadSeen,   \* unloadWhisper ran while the caller's load was in flight
    \* ---- audio harness (WAV decoding and resampling applied to sampled inputs)
    audioPc,      \* "off" | "input" | "done"
    audioIn,      \* the sampled input: bytes of a file, or samples and two rates
    audioOut,     \* what the call returned or threw
    \* ---- tokenizer.ts module state and its callers
    tokPc,        \* "off" | "new" | "ready" | "threw" | "encoded"
    tokJson,      \* the sampled tokenizer.json
    tokenizer,    \* _tokenizer: None, or the BPETokenizer
    tokWord,      \* the word of the last encodeWord call
    tokOut        \* what that call returned, and how it got there

piiVars == <<piiPc, piiText, piiResult, piiReversed>>

storeVars == <<meta, files, audioOnDisk, project, mistralKey, started>>

runVars == <<pc, opt, loc, trace>>

transVars == <<tPc, tHandle, unloadSeen>>

whisperVars == <<platformWeb, linked, modelOnDisk, sttModule, loadedVariant,
                 isLoading, lastLoadError, wPc, wLoc, wTrace,
                 tPc, tHandle, unloadSeen>>

audioVars == <<audioPc, audioIn, audioOut>>

tokVars == <<tokPc, tokJson, tokenizer, tokWord, tokOut>>

vars == <<tokPc, tokJson, tokenizer, tokWord, tokOut,
          audioPc, audioIn, audioOut,
          piiPc, piiText, piiResult, piiReversed,
          meta, files, audioOnDisk, project, mistralKey, started,
          pc, opt, loc, trace,
          platformWeb, linked, modelOnDisk, sttModule, loadedVariant,
          isLoading, lastLoadError, wPc, wLoc, wTrace,
          tPc, tHandle, unloadSeen>>

\* Optional values (undefined / null versus a value)
None == <<>>

Some(x) == <<x>>

IsSome(o) == Len(o) = 1

Val(o) == o[1]

\* ------------------------------------------------------------------------
\* Bounds of the model
\* ------------------------------------------------------------------------
MaxWords == 3

\* ------------------------------------------------------------------------
\* Characters and character classes used by the regular expressions
\* ------------------------------------------------------------------------
UpperSeq == <<"A","B","C","D","E","F","G","H","I","J","K","L","M","N","O","P","Q","R","S","T","U","V","W","X","Y","Z">>

LowerSeq == <<"a","b","c","d","e","f","g","h","i","j","k","l","m","n","o","p","q","r","s","t","u","v","w","x","y","z">>

DigitSeq == <<"0","1","2","3","4","5","6","7","8","9">>

Upper == {UpperSeq[i] : i \in 1..Len(UpperSeq)}

Lower == {LowerSeq[i] : i \in 1..Len(LowerSeq)}

Digit == {DigitSeq[i] : i \in 1..Len(DigitSeq)}

\* \w of the regex engine
WordChar == Upper \cup Lower \cup Digit \cup {"_"}

\* \s of the regex engine (the ASCII members)
WhiteSpace == {" ", "\t", "\n", "\r"}

\* [A-Za-z0-9._%+-]  local part of the email pattern
EmailLocalClass == Upper \cup Lower \cup Digit \cup {".", "_", "%", "+", "-"}

\* [A-Za-z0-9.-]  domain part of the email pattern
EmailDomainClass == Upper \cup Lower \cup Digit \cup {".", "-"}

\* [A-Z|a-z]  top-level-domain class of the email pattern (the bar is literal)
EmailTldClass == Upper \cup Lower \cup {"|"}

\* String.prototype.toLowerCase on one character
ToLowerChar(c) ==
    IF c \in Upper
    THEN LowerSeq[CHOOSE i \in 1..Len(UpperSeq) : UpperSeq[i] = c]
    ELSE c

ToLower(s) == [i \in 1..Len(s) |-> ToLowerChar(s[i])]

SetMax(S) == CHOOSE x \in S : \A y \in S : y <= x

SetMin(S) == CHOOSE x \in S : \A y \in S : x <= y

\* s.substring(from, to) with 0-based offsets: characters from+1 .. to
Slice(s, from, to) == IF to <= from THEN <<>> ELSE SubSeq(s, from + 1, to)

\* \b at offset k of s (between character k and character k+1)
IsBoundary(s, k) ==
    LET before == k >= 1 /\ s[k] \in WordChar
        after  == k + 1 <= Len(s) /\ s[k + 1] \in WordChar
    IN  before # after

\* End offset of the maximal run of characters of class C starting at offset k
RECURSIVE RunEnd(_, _, _)
RunEnd(s, k, C) ==
    IF k + 1 <= Len(s) /\ s[k + 1] \in C THEN RunEnd(s, k + 1, C) ELSE k

\* String.prototype.indexOf: least 0-based offset where v occurs, -1 if none
IndexOf(s, v) ==
    LET hits == {k \in 0..(Len(s) - Len(v)) : Slice(s, k, k + Len(v)) = v}
    IN  IF Len(v) > Len(s) \/ hits = {} THEN -1 ELSE SetMin(hits)

Contains(s, v) == IndexOf(s, v) # -1

\* Decimal rendering of a counter inside a template literal
RECURSIVE NumToChars(_)
NumToChars(n) ==
    IF n < 10 THEN <<DigitSeq[n + 1]>>
    ELSE NumToChars(n \div 10) \o <<DigitSeq[(n % 10) + 1]>>

\* ------------------------------------------------------------------------
\* PII_PATTERNS and the detectors
\* ------------------------------------------------------------------------
\* Keys of PII_PATTERNS in Object.entries order, with the characters of each
\* key as they appear inside a placeholder.
PII_PATTERNS ==
    << [type |-> "phone",             chars |-> <<"p","h","o","n","e">>],
       [type |-> "email",             chars |-> <<"e","m","a","i","l">>],
       [type |-> "creditCard",        chars |-> <<"c","r","e","d","i","t","C","a","r","d">>],
       [type |-> "ssn",               chars |-> <<"s","s","n">>],
       [type |-> "passport",          chars |-> <<"p","a","s","s","p","o","r","t">>],
       [type |-> "address",           chars |-> <<"a","d","d","r","e","s","s">>],
       [type |-> "bankAccount",       chars |-> <<"b","a","n","k","A","c","c","o","u","n","t">>],
       [type |-> "healthInsuranceId", chars |-> <<"h","e","a","l","t","h","I","n","s","u","r","a","n","c","e","I","d">>],
       [type |-> "dateOfBirth",       chars |-> <<"d","a","t","e","O","f","B","i","r","t","h">>],
       [type |-> "ipAddress",         chars |-> <<"i","p","A","d","d","r","e","s","s">>] >>

PersonChars == <<"p","e","r","s","o","n">>

\* `<${type} ${counter}>`
Placeholder(typeChars, n) == <<"<">> \o typeChars \o <<" ">> \o NumToChars(n) \o <<">">>

\* /\b[A-Za-z0-9._%+-]+@[A-Za-z0-9.-]+\.[A-Z|a-z]{2,}\b/ tried at offset k:
\* the end offset of the match the backtracking engine returns, 0 if none.
\* The local part is the maximal run (no shorter run is followed by "@");
\* the domain is tried longest first, then the top-level domain longest first.
EmailEndAt(s, k) ==
    LET localEnd == RunEnd(s, k, EmailLocalClass)
        domStart == localEnd + 1
        domMax   == RunEnd(s, domStart, EmailDomainClass)
        TldEnds(y) == {z \in (y + 3)..RunEnd(s, y + 1, EmailTldClass) : IsBoundary(s, z)}
        DomEnds  == {y \in (domStart + 1)..(domMax - 1) :
                        s[y + 1] = "." /\ TldEnds(y) # {}}
    IN  IF /\ IsBoundary(s, k)
           /\ localEnd > k
           /\ localEnd + 1 <= Len(s)
           /\ s[localEnd + 1] = "@"
           /\ DomEnds # {}
        THEN SetMax(TldEnds(SetMax(DomEnds)))
        ELSE 0

\* /\b[A-Z][a-z]+(?:\s+[A-Z][a-z]+)*\b/ : PersonWordEnd matches one
\* [A-Z][a-z]+ at offset k followed by the rest of the pattern, PersonTail
\* matches (?:\s+[A-Z][a-z]+)*\b after offset e; both give the end offset the
\* backtracking engine returns (greedy alternatives first), 0 if none.
RECURSIVE PersonWordEnd(_, _), PersonTail(_, _)
PersonWordEnd(s, k) ==
    IF ~(k + 1 <= Len(s) /\ s[k + 1] \in Upper) THEN 0
    ELSE LET runMax == RunEnd(s, k + 1, Lower)
             good   == {e \in (k + 2)..runMax : PersonTail(s, e) # 0}
         IN  IF good = {} THEN 0 ELSE PersonTail(s, SetMax(good))

PersonTail(s, e) ==
    LET wsMax == RunEnd(s, e, WhiteSpace)
        good  == {w \in (e + 1)..wsMax : PersonWordEnd(s, w) # 0}
    IN  IF good # {} THEN PersonWordEnd(s, SetMax(good))
        ELSE IF IsBoundary(s, e) THEN e
        ELSE 0

PersonEndAt(s, k) == IF IsBoundary(s, k) THEN PersonWordEnd(s, k) ELSE 0

\* The `while ((match = pattern.exec(text)) !== null)` loop of a /g pattern:
\* the matched substrings in order, scanning on from lastIndex after a match.
RECURSIVE EmailExecAll(_, _)
EmailExecAll(s, k) ==
    IF k >= Len(s) THEN <<>>
    ELSE LET e == EmailEndAt(s, k)
         IN  IF e # 0 THEN <<Slice(s, k, e)>> \o EmailExecAll(s, e)
             ELSE EmailExecAll(s, k + 1)

RECURSIVE PersonExecAll(_, _)
PersonExecAll(s, k) ==
    IF k >= Len(s) THEN <<>>
    ELSE LET e == PersonEndAt(s, k)
         IN  IF e # 0 THEN <<Slice(s, k, e)>> \o PersonExecAll(s, e)
             ELSE PersonExecAll(s, k + 1)

\* Matches of one PII_PATTERNS entry.  Every pattern other than email needs
\* at least one decimal digit (phone, creditCard, ssn, passport, address,
\* bankAccount, healthInsuranceId, dateOfBirth, ipAddress), so on the
\* digit-free texts of this model they match nothing.
PatternExecAll(type, s) ==
    IF type = "email" THEN EmailExecAll(s, 0) ELSE <<>>

\* ------------------------------------------------------------------------
\* anonymizeTranscription
\* ------------------------------------------------------------------------
commonWords ==
    { <<"T","h","e">>, <<"A","n","d">>, <<"O","r">>, <<"B","u","t">>,
      <<"I","n">>, <<"O","n">>, <<"A","t">>, <<"T","o">>,
      <<"F","o","r">>, <<"O","f">>, <<"W","i","t","h">>, <<"B","y">>,
      <<"F","r","o","m">>, <<"I","s">>, <<"A","r","e">>, <<"W","a","s">>,
      <<"W","e","r","e">>, <<"B","e","e","n">>, <<"B","e">>, <<"H","a","v","e">>,
      <<"H","a","s">>, <<"H","a","d">>, <<"D","o">>, <<"D","o","e","s">>,
      <<"D","i","d">>, <<"W","i","l","l">>, <<"W","o","u","l","d">>, <<"S","h","o","u","l","d">>,
      <<"C","o","u","l","d">>, <<"M","a","y">>, <<"M","i","g","h","t">>, <<"M","u","s","t">>,
      <<"C","a","n">> }

\* text.split(/\s+/)
RECURSIVE SplitWhiteSpace(_)
SplitWhiteSpace(s) ==
    LET ws == {k \in 0..(Len(s) - 1) : s[k + 1] \in WhiteSpace}
    IN  IF ws = {} THEN <<s>>
        ELSE LET k == SetMin(ws)
             IN  <<Slice(s, 0, k)>>
                   \o SplitWhiteSpace(Slice(s, RunEnd(s, k, WhiteSpace), Len(s)))

isLikelyPersonName(text) ==
    LET words == SplitWhiteSpace(text)
    IN  IF text \in commonWords THEN FALSE
        ELSE IF Len(words) = 1 THEN FALSE
        ELSE \A i \in 1..Len(words) :
                /\ Len(words[i]) >= 1 /\ words[i][1] \in Upper
                /\ Len(words[i]) > 1

InitialCounters ==
    [t \in {PII_PATTERNS[i].type : i \in 1..Len(PII_PATTERNS)} \cup {"person"} |-> 1]

\* Body of the exec loop of one pattern: every match is pushed with the
\* current counter of its type, and the counter is incremented.
RECURSIVE PushPatternMatches(_, _, _)
PushPatternMatches(p, values, st) ==
    IF values = <<>> THEN st
    ELSE PushPatternMatches(p, Tail(values),
            [matches  |-> Append(st.matches,
                             [type        |-> p.type,
                              value       |-> Head(values),
                              placeholder |-> Placeholder(p.chars, st.counters[p.type])]),
             counters |-> [st.counters EXCEPT ![p.type] = @ + 1]])

\* for (const [type, pattern] of Object.entries(PII_PATTERNS))
RECURSIVE RegexPhase(_, _, _)
RegexPhase(text, i, st) ==
    IF i > Len(PII_PATTERNS) THEN st
    ELSE RegexPhase(text, i + 1,
            PushPatternMatches(PII_PATTERNS[i],
                               PatternExecAll(PII_PATTERNS[i].type, text), st))

\* The personPattern loop: a value is pushed only when no earlier match has
\* exactly this value and isLikelyPersonName accepts it.
RECURSIVE PersonPhase(_, _)
PersonPhase(values, st) ==
    IF values = <<>> THEN st
    ELSE LET value == Head(values)
             fresh == ~(\E j \in 1..Len(st.matches) : st.matches[j].value = value)
         IN  IF fresh /\ isLikelyPersonName(value)
             THEN PersonPhase(Tail(values),
                     [matches  |-> Append(st.matches,
                                      [type        |-> "person",
                                       value       |-> value,
                                       placeholder |-> Placeholder(PersonChars, st.counters["person"])]),
                      counters |-> [st.counters EXCEPT !["person"] = @ + 1]])
             ELSE PersonPhase(Tail(values), st)

CollectMatches(text) ==
    PersonPhase(PersonExecAll(text, 0),
                RegexPhase(text, 1, [matches |-> <<>>, counters |-> InitialCounters])).matches

\* matches.sort((a, b) => text.indexOf(b.value) - text.indexOf(a.value)):
\* a stable sort by descending first-occurrence offset.
RECURSIVE InsertByPosition(_, _, _)
InsertByPosition(text, m, sorted) ==
    IF sorted = <<>> THEN <<m>>
    ELSE IF IndexOf(text, Head(sorted).value) >= IndexOf(text, m.value)
         THEN <<Head(sorted)>> \o InsertByPosition(text, m, Tail(sorted))
         ELSE <<m>> \o sorted

RECURSIVE SortMatches(_, _, _)
SortMatches(text, matches, sorted) ==
    IF matches = <<>> THEN sorted
    ELSE SortMatches(text, Tail(matches), InsertByPosition(text, Head(matches), sorted))

\* sortedMatches.filter(...) with the `seen` set of lower-cased values
RECURSIVE UniqueMatches(_, _)
UniqueMatches(matches, seen) ==
    IF matches = <<>> THEN <<>>
    ELSE IF ToLower(Head(matches).value) \in seen
         THEN UniqueMatches(Tail(matches), seen)
         ELSE <<Head(matches)>>
                \o UniqueMatches(Tail(matches), seen \cup {ToLower(Head(matches).value)})

\* new RegExp(`\\b${escapeRegex(value)}\\b`, 'gi') matched at offset k of s
WordMatchAt(s, k, value) ==
    /\ k + Len(value) <= Len(s)
    /\ IsBoundary(s, k)
    /\ ToLower(Slice(s, k, k + Len(value))) = ToLower(value)
    /\ IsBoundary(s, k + Len(value))

\* anonymized.replace(regex, match.placeholder)
RECURSIVE ReplaceWord(_, _, _, _)
ReplaceWord(s, k, value, placeholder) ==
    IF k >= Len(s) THEN <<>>
    ELSE IF WordMatchAt(s, k, value)
         THEN placeholder \o ReplaceWord(s, k + Len(value), value, placeholder)
         ELSE <<s[k + 1]>> \o ReplaceWord(s, k + 1, value, placeholder)

\* mappings[key] = value on an object that keeps insertion order
SetMapping(mappings, key, value) ==
    IF \E i \in 1..Len(mappings) : mappings[i].key = key
    THEN [i \in 1..Len(mappings) |->
            IF mappings[i].key = key THEN [key |-> key, value |-> value] ELSE mappings[i]]
    ELSE Append(mappings, [key |-> key, value |-> value])

\* for (const match of uniqueMatches) { replace; mappings[placeholder] = value }
RECURSIVE SubstituteAll(_, _)
SubstituteAll(unique, res) ==
    IF unique = <<>> THEN res
    ELSE SubstituteAll(Tail(unique),
            [anonymized |-> ReplaceWord(res.anonymized, 0, Head(unique).value,
                                        Head(unique).placeholder),
             mappings   |-> SetMapping(res.mappings, Head(unique).placeholder,
                                       Head(unique).value)])

anonymizeTranscription(text) ==
    LET matches       == CollectMatches(text)
        sortedMatches == SortMatches(text, matches, <<>>)
        uniqueMatches == UniqueMatches(sortedMatches, {})
    IN  SubstituteAll(uniqueMatches, [anonymized |-> text, mappings |-> <<>>])

\* ------------------------------------------------------------------------
\* reversePIIMappings
\* ------------------------------------------------------------------------
\* The text String.prototype.replace inserts for a match of length n at
\* offset k of s when the replacement is the string r: "$$" stands for "$"
\* and "$&" for the match.  The pattern has no capture group, so "$1".."$99"
\* and "$<" are inserted as they are.  A dollar sign followed by a backtick
\* or an apostrophe (the text before / after the match) does not occur in
\* the replacement strings sampled here.
RECURSIVE ExpandReplacement(_, _, _, _)
ExpandReplacement(r, s, k, n) ==
    IF r = <<>> THEN <<>>
    ELSE IF r[1] = "$" /\ Len(r) >= 2 /\ r[2] \in {"$", "&"}
    THEN (IF r[2] = "$" THEN <<"$">> ELSE Slice(s, k, k + n))
         \o ExpandReplacement(Tail(Tail(r)), s, k, n)
    ELSE <<r[1]>> \o ExpandReplacement(Tail(r), s, k, n)

\* result.replace(new RegExp(escapeRegex(placeholder), 'g'), original): every
\* literal occurrence of the placeholder, left to right, is replaced by the
\* expansion of the replacement string `original`.
RECURSIVE ReplaceLiteral(_, _, _, _)
ReplaceLiteral(s, k, placeholder, original) ==
    IF k >= Len(s) THEN <<>>
    ELSE IF /\ k + Len(placeholder) <= Len(s)
            /\ Slice(s, k, k + Len(placeholder)) = placeholder
         THEN ExpandReplacement(original, s, k, Len(placeholder))
              \o ReplaceLiteral(s, k + Len(placeholder), placeholder, original)
         ELSE <<s[k + 1]>> \o ReplaceLiteral(s, k + 1, placeholder, original)

RECURSIVE reversePIIMappings(_, _)
reversePIIMappings(text, mappings) ==
    IF mappings = <<>> THEN text
    ELSE reversePIIMappings(
            ReplaceLiteral(text, 0, Head(mappings).key, Head(mappings).value),
            Tail(mappings))

\* ------------------------------------------------------------------------
\* Sampled texts: up to MaxWords words separated by single spaces
\* ------------------------------------------------------------------------
SampleWords ==
    { <<"A","n","n">>, <<"B","o","b">>, <<"a","n","n">>,
      <<"a","@","b",".","c","c">>, <<"A","@","b",".","c","c">>,
      <<"B","o","b","@","b",".","c","c">> }

RECURSIVE JoinWords(_)
JoinWords(ws) ==
    IF ws = <<>> THEN <<>>
    ELSE IF Len(ws) = 1 THEN ws[1]
    ELSE ws[1] \o <<" ">> \o JoinWords(Tail(ws))

SampleTexts ==
    {JoinWords(ws) : ws \in UNION {[1..n -> SampleWords] : n \in 0..MaxWords}}

\* ------------------------------------------------------------------------
\* Harness applying anonymize and reverse to every sampled text
\* ------------------------------------------------------------------------
EmptyResult == [anonymized |-> <<>>, mappings |-> <<>>]

PiiInit ==
    /\ piiPc = "input"
    /\ piiText \in SampleTexts
    /\ piiResult = EmptyResult
    /\ piiReversed = <<>>

PiiAnonymize ==
    /\ piiPc = "input"
    /\ piiResult' = anonymizeTranscription(piiText)
    /\ piiPc' = "anonymized"
    /\ UNCHANGED <<piiText, piiReversed>>
    /\ UNCHANGED <<tokVars, audioVars, storeVars, runVars, whisperVars>>

PiiReverse ==
    /\ piiPc = "anonymized"
    /\ piiReversed' = reversePIIMappings(piiResult.anonymized, piiResult.mappings)
    /\ piiPc' = "reversed"
    /\ UNCHANGED <<piiText, piiResult>>
    /\ UNCHANGED <<tokVars, audioVars, storeVars, runVars, whisperVars>>

PiiNext == PiiAnonymize \/ PiiReverse

\* ------------------------------------------------------------------------
\* Harness applying reverse to sampled texts and mappings of its own domain:
\* any text and any Record<string, string>
\* ------------------------------------------------------------------------
EmailPlaceholder == Placeholder(PII_PATTERNS[2].chars, 1)

PersonPlaceholder == Placeholder(PersonChars, 1)

ReverseWords == {PersonPlaceholder, EmailPlaceholder, <<"x">>}

ReverseTexts ==
    {JoinWords(ws) : ws \in UNION {[1..n -> ReverseWords] : n \in 0..MaxWords}}

ReverseValues == {<<"A","n","n">>, <<"$","&">>, <<"a","$","$","b">>, <<"$","1">>}

\* Mappings as Object.entries lists them: no key twice
ReverseMappings ==
    {<<>>}
    \cup {<<[key |-> k, value |-> v]>> : k \in {PersonPlaceholder, EmailPlaceholder},
                                        v \in ReverseValues}
    \cup {<<[key |-> PersonPlaceholder, value |-> v], [key |-> EmailPlaceholder, value |-> w]>> :
              v \in ReverseValues, w \in ReverseValues}

ReverseInit ==
    /\ piiPc = "anonymized"
    /\ piiText \in ReverseTexts
    /\ \E m \in ReverseMappings : piiResult = [anonymized |-> piiText, mappings |-> m]
    /\ piiReversed = <<>>

ReverseNext == PiiReverse

\* ------------------------------------------------------------------------
\* Recording storage: updateRecording of the file-based build
\* ------------------------------------------------------------------------
Slots == {"r1", "r2"}

MaxRuns == 2

TextAnnBob == <<"A","n","n"," ","B","o","b">>

\* Texts a transcription service can return (fullText may be empty)
TranscriptTexts == {<<>>, TextAnnBob}

\* Texts the generation service can return
LlmOutputs == {<<"o","k">>, Placeholder(PersonChars, 1)}

ErrNoMethod == "No transcription method available"

ErrWhisper == "Whisper model is not loaded"

ErrRemote == "Mistral transcription API error"

ErrLlm == "LLM API error"

\* `value` as a condition, for a string that may be undefined
TruthyText(o) == IsSome(o) /\ Val(o) # <<>>

\* The `data` argument of updateRecording with every field undefined
NoData ==
    [status |-> None, transcription |-> None, transcriptionData |-> None,
     transcriptionSource |-> None, anonymizedTranscription |-> None,
     piiMappings |-> None, llmOutput |-> None, errorMessage |-> None]

\* The fields of the metadata JSON that updateRecording sets from `data`
ApplyMeta(m, data) ==
    [m EXCEPT !.status       = IF IsSome(data.status) THEN Val(data.status) ELSE @,
              !.piiMappings  = IF IsSome(data.piiMappings) THEN data.piiMappings ELSE @,
              !.errorMessage = IF IsSome(data.errorMessage) THEN data.errorMessage ELSE @]

\* The content files updateRecording writes, in the order it writes them
ContentOrder == <<"transcription", "transcriptionData", "anonymizedTranscription", "llmOutput">>

ContentPc(field) == "u_" \o field

\* Position after the step at index i of ContentOrder (0: after the metadata
\* write): the next content file `data` carries, or the caller's continuation.
AfterWrite(data, i, ret) ==
    LET later == {j \in (i + 1)..Len(ContentOrder) : IsSome(data[ContentOrder[j]])}
    IN  IF later = {} THEN ret ELSE ContentPc(ContentOrder[SetMin(later)])

NoOptions == [skipTranscription |-> FALSE, forceVoxtralApi |-> FALSE]

InitLoc ==
    [transcriptionText |-> <<>>, anonymizedText |-> None, piiMappings |-> None,
     data |-> NoData, metaBuf |-> None, ret |-> "idle"]

InitTrace ==
    [statusLog |-> <<>>, calls |-> {}, wrote |-> {}, localFailed |-> FALSE,
     resumable |-> FALSE, reused |-> FALSE, transcript |-> None, anonOut |-> None, sent |-> None,
     generated |-> None, remotePath |-> FALSE, thrown |-> None]

\* A call `await updateRecording(recordingId, data)` by run p, to continue at
\* `ret`: the run is suspended in readRecordingMeta.
CallUpdate(p, l, data, ret) ==
    /\ pc' = [pc EXCEPT ![p] = "u_read"]
    /\ loc' = [loc EXCEPT ![p] = [l EXCEPT !.data = data, !.ret = ret]]

LogStatus(t, data) ==
    [t EXCEPT !.statusLog = IF IsSome(data.status) THEN Append(@, Val(data.status)) ELSE @]

\* readRecordingMeta resolves; the fields of `data` are set on the object read
UpdRead(p) ==
    /\ pc[p] = "u_read"
    /\ loc' = [loc EXCEPT ![p].metaBuf = Some(ApplyMeta(meta, loc[p].data))]
    /\ pc' = [pc EXCEPT ![p] = "u_meta"]
    /\ UNCHANGED <<tokVars, audioVars, piiVars, whisperVars, storeVars, opt, trace>>

\* Run p moves on to position `next`; at "idle" the call of
\* runProcessingPipeline has returned and its locals are gone.
Continue(p, next, t) ==
    /\ pc' = [pc EXCEPT ![p] = next]
    /\ IF next = "idle"
       THEN /\ loc' = [loc EXCEPT ![p] = InitLoc]
            /\ trace' = [trace EXCEPT ![p] = InitTrace]
            /\ opt' = [opt EXCEPT ![p] = NoOptions]
       ELSE /\ trace' = [trace EXCEPT ![p] = t]
            /\ UNCHANGED <<loc, opt>>

\* writeRecordingMeta writes the object back
UpdWriteMeta(p) ==
    /\ pc[p] = "u_meta"
    /\ meta' = Val(loc[p].metaBuf)
    /\ Continue(p, AfterWrite(loc[p].data, 0, loc[p].ret), trace[p])
    /\ UNCHANGED <<tokVars, audioVars, piiVars, whisperVars, files, audioOnDisk, project, mistralKey, started>>

\* saveTranscription, saveTranscriptionSegments, saveAnonymizedTranscription,
\* saveLlmResponse: one write per content field that `data` carries
UpdWriteContent(p, i) ==
    /\ pc[p] = ContentPc(ContentOrder[i])
    /\ files' = [files EXCEPT ![ContentOrder[i]] = loc[p].data[ContentOrder[i]]]
    /\ Continue(p, AfterWrite(loc[p].data, i, loc[p].ret),
                [trace[p] EXCEPT !.wrote = @ \cup {ContentOrder[i]}])
    /\ UNCHANGED <<tokVars, audioVars, piiVars, whisperVars, meta, audioOnDisk, project, mistralKey, started>>

\* getRecordingById -> buildRecording: the fields the pipeline reads
buildRecording ==
    [audioPath     |-> IF IsSome(meta.audioPath) THEN meta.audioPath
                       ELSE IF audioOnDisk THEN Some("audio.m4a") ELSE None,
     transcription |-> files.transcription]

\* ------------------------------------------------------------------------
\* runProcessingPipeline
\* ------------------------------------------------------------------------
ReuseTranscription_Never(options, recording) == FALSE

\* options?.skipTranscription && recording.transcription
ReuseTranscription(options, recording) ==
    options.skipTranscription /\ TruthyText(recording.transcription)

TranscribingData == [NoData EXCEPT !.status = Some("transcribing")]

AnonymizingData == [NoData EXCEPT !.status = Some("anonymizing")]

ProcessingData_Regress == [NoData EXCEPT !.status = Some("transcribing")]

ProcessingData == [NoData EXCEPT !.status = Some("processing")]

DoneData == [NoData EXCEPT !.status = Some("done")]

ErrorData(message) ==
    [NoData EXCEPT !.status = Some("error"), !.errorMessage = Some(message)]

TranscriptionData(text, source) ==
    [NoData EXCEPT !.transcription = Some(text), !.transcriptionData = Some(text),
                   !.transcriptionSource = Some(source)]

ShouldAnonymize_AnonymizationOnly(proj) == proj.enableAnonymization

\* project.enableLlm && project.enableAnonymization
ShouldAnonymize(proj) == proj.enableLlm /\ proj.enableAnonymization

TextToProcess_Raw(proj, anonymizedText, transcriptionText) == transcriptionText

\* project.enableAnonymization && anonymizedText ? anonymizedText : transcriptionText
TextToProcess(proj, anonymizedText, transcriptionText) ==
    IF proj.enableAnonymization /\ TruthyText(anonymizedText)
    THEN Val(anonymizedText)
    ELSE transcriptionText

FinalOutput_Raw(proj, piiMappings, llmOutput) == llmOutput

\* finalOutput: placeholders are inverted when anonymization is on and a
\* mapping object exists (an empty object is truthy)
FinalOutput(proj, piiMappings, llmOutput) ==
    IF proj.enableAnonymization /\ IsSome(piiMappings)
    THEN reversePIIMappings(llmOutput, Val(piiMappings))
    ELSE llmOutput

\* An exception inside the try block: control enters the catch block, which
\* calls updateRecording with status error and the message.
Throw(p, message, t) ==
    /\ CallUpdate(p, loc[p], ErrorData(message), "idle")
    /\ trace' = [trace EXCEPT ![p] = LogStatus([t EXCEPT !.thrown = Some(message)],
                                               ErrorData(message))]

ErrStorage == "File write error"

WritePcs == {"u_meta"} \cup {ContentPc(ContentOrder[i]) : i \in 1..Len(ContentOrder)}

\* FileSystem.writeAsStringAsync rejects inside writeRecordingMeta or one of
\* the save functions: nothing is written and updateRecording rejects.  An
\* update called in the try block hands control to the catch block; the
\* catch block's own update is not guarded, so its rejection is the
\* rejection of runProcessingPipeline.
UpdWriteRejects(p) ==
    /\ pc[p] \in WritePcs
    /\ IF trace[p].thrown = None
       THEN /\ Throw(p, ErrStorage, trace[p])
            /\ UNCHANGED opt
       ELSE Continue(p, "idle", trace[p])
    /\ UNCHANGED <<tokVars, audioVars, piiVars, whisperVars, storeVars>>

\* Slots are interchangeable: a new run takes the first idle one.
SlotOrder == <<"r1", "r2">>

FirstIdleSlot ==
    LET idle == {i \in 1..Len(SlotOrder) : pc[SlotOrder[i]] = "idle"}
    IN  IF idle = {} THEN "none" ELSE SlotOrder[SetMin(idle)]

\* A caller (the recording screen's Reprocess / Retry button, or the first
\* run after recording) invokes runProcessingPipeline.
StartRun(p, skip, force) ==
    /\ pc[p] = "idle"
    /\ p = FirstIdleSlot
    /\ started < MaxRuns
    /\ started' = started + 1
    /\ pc' = [pc EXCEPT ![p] = "load"]
    /\ opt' = [opt EXCEPT ![p] = [skipTranscription |-> skip, forceVoxtralApi |-> force]]
    /\ loc' = [loc EXCEPT ![p] = InitLoc]
    /\ trace' = [trace EXCEPT ![p] = InitTrace]
    /\ UNCHANGED <<tokVars, audioVars, piiVars, whisperVars, meta, files, audioOnDisk, project, mistralKey>>

LookupFails_AudioOnly(recording, proj) == ~IsSome(recording.audioPath)

\* if (!recording?.audioPath) return; ... if (!project) return;
LookupFails(recording, proj) == ~IsSome(recording.audioPath) \/ ~IsSome(proj)

\* getRecordingById, getProjectById, getApiKeys and the choice of step 1.
\* audioPath and the project do not change while runs are in flight, so the
\* three reads are taken in one step.  options.skipTranscription is not read
\* again after this step and options.forceVoxtralApi not after Route: the
\* model forgets each option after its last use.
Load(p) ==
    /\ pc[p] = "load"
    /\ LET recording == buildRecording
           resumable == opt[p].skipTranscription /\ IsSome(recording.transcription)
                          /\ Val(recording.transcription) # <<>>
       IN  IF LookupFails(recording, project)
           THEN /\ pc' = [pc EXCEPT ![p] = "idle"]
                /\ opt' = [opt EXCEPT ![p] = NoOptions]
                /\ UNCHANGED <<loc, trace>>
           ELSE IF ReuseTranscription(opt[p], recording)
           THEN /\ pc' = [pc EXCEPT ![p] = "step2"]
                /\ loc' = [loc EXCEPT ![p].transcriptionText = Val(recording.transcription)]
                /\ trace' = [trace EXCEPT ![p].reused = TRUE,
                                          ![p].resumable = resumable,
                                          ![p].transcript = recording.transcription]
                /\ opt' = [opt EXCEPT ![p] = NoOptions]
           ELSE /\ CallUpdate(p, loc[p], TranscribingData, "route")
                /\ trace' = [trace EXCEPT ![p] = LogStatus([@ EXCEPT !.resumable = resumable],
                                                           TranscribingData)]
                /\ opt' = [opt EXCEPT ![p].skipTranscription = FALSE]
    /\ UNCHANGED <<tokVars, audioVars, piiVars, whisperVars, storeVars>>

MissingMistralKey_Ignored == FALSE

\* if (!mistralKey) throw new Error('No transcription method available. ...')
MissingMistralKey == ~mistralKey

\* !options?.forceVoxtralApi && await shouldUseLocalWhisper(audioUri), then
\* the branch on useLocalWhisper and the check of the Mistral key
Route(p) ==
    /\ pc[p] = "route"
    /\ \E available \in BOOLEAN :
          LET useLocalWhisper == ~opt[p].forceVoxtralApi /\ available
          IN  IF useLocalWhisper
              THEN /\ pc' = [pc EXCEPT ![p] = "local"]
                   /\ UNCHANGED <<loc, trace>>
              ELSE IF MissingMistralKey
              THEN Throw(p, ErrNoMethod, [trace[p] EXCEPT !.remotePath = TRUE])
              ELSE /\ pc' = [pc EXCEPT ![p] = "remote"]
                   /\ trace' = [trace EXCEPT ![p].remotePath = TRUE]
                   /\ UNCHANGED loc
    /\ opt' = [opt EXCEPT ![p] = NoOptions]
    /\ UNCHANGED <<tokVars, audioVars, piiVars, whisperVars, storeVars>>

\* transcribeWithWhisper resolves with a text or throws
Local(p) ==
    /\ pc[p] = "local"
    /\ LET t == [trace[p] EXCEPT !.calls = @ \cup {"local"}]
       IN  \/ \E text \in TranscriptTexts :
                /\ CallUpdate(p, [loc[p] EXCEPT !.transcriptionText = text],
                              TranscriptionData(text, "whisper"), "step2")
                /\ trace' = [trace EXCEPT ![p] = [t EXCEPT !.transcript = Some(text)]]
           \/ Throw(p, ErrWhisper, [t EXCEPT !.localFailed = TRUE])
    /\ UNCHANGED <<tokVars, audioVars, piiVars, whisperVars, storeVars, opt>>

\* processTranscription resolves with a text or throws
Remote(p) ==
    /\ pc[p] = "remote"
    /\ LET t == [trace[p] EXCEPT !.calls = @ \cup {"remote"}]
       IN  \/ \E text \in TranscriptTexts :
                /\ CallUpdate(p, [loc[p] EXCEPT !.transcriptionText = text],
                              TranscriptionData(text, "voxtral-api"), "step2")
                /\ trace' = [trace EXCEPT ![p] = [t EXCEPT !.transcript = Some(text)]]
           \/ Throw(p, ErrRemote, t)
    /\ UNCHANGED <<tokVars, audioVars, piiVars, whisperVars, storeVars, opt>>

\* Step 2: the branch on the project flags
Step2(p) ==
    /\ pc[p] = "step2"
    /\ IF ShouldAnonymize(Val(project))
       THEN /\ CallUpdate(p, loc[p], AnonymizingData, "anonymize")
            /\ trace' = [trace EXCEPT ![p] = LogStatus(@, AnonymizingData)]
       ELSE /\ pc' = [pc EXCEPT ![p] = "step3"]
            /\ UNCHANGED <<loc, trace>>
    /\ UNCHANGED <<tokVars, audioVars, piiVars, whisperVars, storeVars, opt>>

\* anonymizeTranscription and the update that persists its result
Anonymize(p) ==
    /\ pc[p] = "anonymize"
    /\ LET result == anonymizeTranscription(loc[p].transcriptionText)
       IN  /\ CallUpdate(p, [loc[p] EXCEPT !.anonymizedText = Some(result.anonymized),
                                           !.piiMappings = Some(result.mappings)],
                         [NoData EXCEPT !.anonymizedTranscription = Some(result.anonymized),
                                        !.piiMappings = Some(result.mappings)],
                         "step3")
           /\ trace' = [trace EXCEPT ![p].calls = @ \cup {"anonymize"},
                                     ![p].anonOut = Some(result.anonymized)]
    /\ UNCHANGED <<tokVars, audioVars, piiVars, whisperVars, storeVars, opt>>

\* Step 3: the branch on project.enableLlm
Step3(p) ==
    /\ pc[p] = "step3"
    /\ LET data == IF Val(project).enableLlm THEN ProcessingData ELSE DoneData
           ret  == IF Val(project).enableLlm THEN "llm" ELSE "idle"
       IN  /\ CallUpdate(p, loc[p], data, ret)
           /\ trace' = [trace EXCEPT ![p] = LogStatus(@, data)]
    /\ UNCHANGED <<tokVars, audioVars, piiVars, whisperVars, storeVars, opt>>

\* processWithLLM resolves with a text or throws
Llm(p) ==
    /\ pc[p] = "llm"
    /\ LET textToProcess == TextToProcess(Val(project), loc[p].anonymizedText,
                                          loc[p].transcriptionText)
           t == [trace[p] EXCEPT !.calls = @ \cup {"llm"}, !.sent = Some(textToProcess)]
       IN  \/ \E llmOutput \in LlmOutputs :
                LET data == [DoneData EXCEPT !.llmOutput =
                                Some(FinalOutput(Val(project), loc[p].piiMappings, llmOutput))]
                IN  /\ CallUpdate(p, loc[p], data, "idle")
                    /\ trace' = [trace EXCEPT ![p] =
                                    LogStatus([t EXCEPT !.generated = Some(llmOutput)], data)]
           \/ Throw(p, ErrLlm, t)
    /\ UNCHANGED <<tokVars, audioVars, piiVars, whisperVars, storeVars, opt>>

PipelineInit ==
    /\ meta \in [status : {"pending"}, audioPath : {None, Some("audio.m4a")},
                 piiMappings : {None}, errorMessage : {None}]
    /\ files = [transcription |-> None, transcriptionData |-> None,
                anonymizedTranscription |-> None, llmOutput |-> None]
    /\ audioOnDisk \in BOOLEAN
    /\ IsSome(meta.audioPath) => audioOnDisk
    /\ project \in {None} \cup {Some(x) : x \in [enableLlm : BOOLEAN, enableAnonymization : BOOLEAN]}
    /\ mistralKey \in BOOLEAN
    /\ started = 0
    /\ pc = [p \in Slots |-> "idle"]
    /\ opt = [p \in Slots |-> NoOptions]
    /\ loc = [p \in Slots |-> InitLoc]
    /\ trace = [p \in Slots |-> InitTrace]

\* ------------------------------------------------------------------------
\* whisperInference.ts: the module-level singleton and ensureWhisperLoaded
\* ------------------------------------------------------------------------
Callers == {"c1", "c2", "c3"}

\* Variant ids getDownloadedWhisperVariant can return; None when variant.txt
\* is missing or names no known variant
VariantsRead == {None, Some("small")}

InFlightPcs == {"paths", "variant", "load"}

LoadsInFlight == {c \in Callers : wPc[c] \in InFlightPcs}

InitWLoc == [variant |-> None]

InitWTrace == [result |-> None, busyAtEntry |-> FALSE, startedLoad |-> FALSE]

\* if (sttModule && loadedVariant) return true
AlreadyLoaded == IsSome(sttModule) /\ IsSome(loadedVariant)

ConcurrentLoadBlocked_NoGuard == FALSE

\* if (isLoading) { ...; return false; }
ConcurrentLoadBlocked == isLoading

LoadingAfterFinally_Kept == isLoading

\* finally { isLoading = false; }
LoadingAfterFinally == FALSE

\* The call returns `value`; the finally block of the try has run before
\* when the call had entered the try.
WReturn(c, value, t) ==
    /\ wPc' = [wPc EXCEPT ![c] = "idle"]
    /\ wLoc' = [wLoc EXCEPT ![c] = InitWLoc]
    /\ wTrace' = [wTrace EXCEPT ![c] = [t EXCEPT !.result = Some(value)]]

\* ensureWhisperLoaded from its first line to its first await
EnsureCall(c) ==
    /\ wPc[c] = "idle"
    /\ tPc[c] = "none"
    /\ unloadSeen' = [unloadSeen EXCEPT ![c] = FALSE]
    /\ LET t == [InitWTrace EXCEPT !.busyAtEntry = (LoadsInFlight # {})]
       IN  IF platformWeb
           THEN /\ lastLoadError' = Some("Web platform not supported")
                /\ WReturn(c, FALSE, t)
                /\ UNCHANGED isLoading
           ELSE IF AlreadyLoaded
           THEN /\ WReturn(c, TRUE, t)
                /\ UNCHANGED <<lastLoadError, isLoading>>
           ELSE IF ConcurrentLoadBlocked
           THEN /\ lastLoadError' = Some("Model is already loading")
                /\ WReturn(c, FALSE, t)
                /\ UNCHANGED isLoading
           ELSE IF ~linked
           THEN /\ lastLoadError' = Some("native module is not linked")
                /\ WReturn(c, FALSE, t)
                /\ UNCHANGED isLoading
           ELSE /\ isLoading' = TRUE
                /\ wPc' = [wPc EXCEPT ![c] = "paths"]
                /\ wTrace' = [wTrace EXCEPT ![c] = [t EXCEPT !.startedLoad = TRUE]]
                /\ UNCHANGED <<lastLoadError, wLoc>>
    /\ UNCHANGED <<platformWeb, linked, modelOnDisk, sttModule, loadedVariant>>
    /\ UNCHANGED <<tokVars, audioVars, piiVars, storeVars, runVars>>

\* A direct call of ensureWhisperLoaded
EnsureEnter(c) == EnsureCall(c) /\ UNCHANGED <<tPc, tHandle>>

\* The module the singleton held is no longer the current one: its
\* transcribe calls in flight go on, on a module nothing refers to (replaced
\* or dropped) or on a deleted one.
Detached(how) == [c \in Callers |-> IF tHandle[c] = "current" THEN how ELSE tHandle[c]]

\* getWhisperModelPaths resolves
PathsResolved(c) ==
    /\ wPc[c] = "paths"
    /\ IF ~modelOnDisk
       THEN /\ lastLoadError' = Some("Model files not found on disk")
            /\ isLoading' = LoadingAfterFinally
            /\ WReturn(c, FALSE, wTrace[c])
       ELSE /\ wPc' = [wPc EXCEPT ![c] = "variant"]
            /\ UNCHANGED <<lastLoadError, isLoading, wLoc, wTrace>>
    /\ UNCHANGED <<platformWeb, linked, modelOnDisk, sttModule, loadedVariant, transVars>>
    /\ UNCHANGED <<tokVars, audioVars, piiVars, storeVars, runVars>>

\* getDownloadedWhisperVariant resolves; new SpeechToTextModule(); module.load
\* is called
VariantResolved(c) ==
    /\ wPc[c] = "variant"
    /\ \E variant \in VariantsRead :
          wLoc' = [wLoc EXCEPT ![c].variant = variant]
    /\ wPc' = [wPc EXCEPT ![c] = "load"]
    /\ UNCHANGED <<platformWeb, linked, modelOnDisk, sttModule, loadedVariant,
                   isLoading, lastLoadError, wTrace, transVars>>
    /\ UNCHANGED <<tokVars, audioVars, piiVars, storeVars, runVars>>

\* module.load resolves: the singleton is set, finally clears isLoading
LoadResolved(c) ==
    /\ wPc[c] = "load"
    /\ sttModule' = Some(c)
    /\ loadedVariant' = wLoc[c].variant
    /\ lastLoadError' = None
    /\ isLoading' = LoadingAfterFinally
    /\ WReturn(c, TRUE, wTrace[c])
    /\ tHandle' = Detached("stale")
    /\ UNCHANGED <<platformWeb, linked, modelOnDisk, tPc, unloadSeen>>
    /\ UNCHANGED <<tokVars, audioVars, piiVars, storeVars, runVars>>

\* module.load rejects: the catch block clears the singleton, finally clears
\* isLoading
LoadRejected(c) ==
    /\ wPc[c] = "load"
    /\ sttModule' = None
    /\ loadedVariant' = None
    /\ lastLoadError' = Some("model.load() failed")
    /\ isLoading' = LoadingAfterFinally
    /\ WReturn(c, FALSE, wTrace[c])
    /\ tHandle' = Detached("stale")
    /\ UNCHANGED <<platformWeb, linked, modelOnDisk, tPc, unloadSeen>>
    /\ UNCHANGED <<tokVars, audioVars, piiVars, storeVars, runVars>>

\* if (sttModule) { sttModule.delete(); sttModule = null; loadedVariant = null; }
\* The function is synchronous and looks at nothing else: neither at calls
\* of transcribe in flight on the module nor at a load in flight.
unloadWhisper ==
    /\ IF IsSome(sttModule)
       THEN /\ sttModule' = None
            /\ loadedVariant' = None
            /\ tHandle' = Detached("deleted")
       ELSE UNCHANGED <<sttModule, loadedVariant, tHandle>>
    /\ unloadSeen' = [c \in Callers |-> unloadSeen[c] \/ c \in LoadsInFlight]
    /\ UNCHANGED <<platformWeb, linked, modelOnDisk, isLoading, lastLoadError,
                   wPc, wLoc, wTrace, tPc>>
    /\ UNCHANGED <<tokVars, audioVars, piiVars, storeVars, runVars>>

WhisperInit ==
    /\ platformWeb \in BOOLEAN
    /\ linked \in BOOLEAN
    /\ modelOnDisk \in BOOLEAN
    /\ sttModule = None
    /\ loadedVariant = None
    /\ isLoading = FALSE
    /\ lastLoadError = None
    /\ wPc = [c \in Callers |-> "idle"]
    /\ wLoc = [c \in Callers |-> InitWLoc]
    /\ wTrace = [c \in Callers |-> InitWTrace]
    /\ tPc = [c \in Callers |-> "none"]
    /\ tHandle = [c \in Callers |-> "none"]
    /\ unloadSeen = [c \in Callers |-> FALSE]

\* No caller of the whisper module is modelled
WhisperIdle == WhisperInit /\ ~platformWeb /\ linked /\ modelOnDisk

WhisperNext ==
    \/ \E c \in Callers :
          \/ EnsureEnter(c)
          \/ PathsResolved(c)
          \/ VariantResolved(c)
          \/ LoadResolved(c)
          \/ LoadRejected(c)
    \/ unloadWhisper

\* ------------------------------------------------------------------------
\* whisperInference.ts: transcribeWithWhisper
\* ------------------------------------------------------------------------
\* transcribeWithWhisper is called: const loaded = await ensureWhisperLoaded()
TranscribeEnter(c) ==
    /\ EnsureCall(c)
    /\ tPc' = [tPc EXCEPT ![c] = "ensure"]
    /\ UNCHANGED tHandle

TranscribeEnds(c) ==
    /\ tPc' = [tPc EXCEPT ![c] = "none"]
    /\ tHandle' = [tHandle EXCEPT ![c] = "none"]

\* ensureWhisperLoaded has returned: if (!loaded || !sttModule) throw
TranscribeChecked(c) ==
    /\ tPc[c] = "ensure" /\ wPc[c] = "idle"
    /\ IF wTrace[c].result # Some(TRUE) \/ ~IsSome(sttModule)
       THEN TranscribeEnds(c)
       ELSE /\ tPc' = [tPc EXCEPT ![c] = "wav"]
            /\ UNCHANGED tHandle
    /\ UNCHANGED <<platformWeb, linked, modelOnDisk, sttModule, loadedVariant,
                   isLoading, lastLoadError, wPc, wLoc, wTrace, unloadSeen>>
    /\ UNCHANGED <<tokVars, audioVars, piiVars, storeVars, runVars>>

\* convertToWav and readWavAsFloat32 have resolved, or one of them rejected;
\* then sttModule.transcribe(waveform, ...) is called on the module the
\* singleton holds now (a TypeError when it is null)
WaveformRead(c) ==
    /\ tPc[c] = "wav"
    /\ \/ TranscribeEnds(c)
       \/ IF IsSome(sttModule)
          THEN /\ tPc' = [tPc EXCEPT ![c] = "infer"]
               /\ tHandle' = [tHandle EXCEPT ![c] = "current"]
          ELSE TranscribeEnds(c)
    /\ UNCHANGED <<platformWeb, linked, modelOnDisk, sttModule, loadedVariant,
                   isLoading, lastLoadError, wPc, wLoc, wTrace, unloadSeen>>
    /\ UNCHANGED <<tokVars, audioVars, piiVars, storeVars, runVars>>

\* sttModule.transcribe resolves or rejects; the call returns or throws
InferenceDone(c) ==
    /\ tPc[c] = "infer"
    /\ TranscribeEnds(c)
    /\ UNCHANGED <<platformWeb, linked, modelOnDisk, sttModule, loadedVariant,
                   isLoading, lastLoadError, wPc, wLoc, wTrace, unloadSeen>>
    /\ UNCHANGED <<tokVars, audioVars, piiVars, storeVars, runVars>>

TranscribeNext ==
    \/ WhisperNext
    \/ \E c \in Callers :
          \/ TranscribeEnter(c)
          \/ TranscribeChecked(c)
          \/ WaveformRead(c)
          \/ InferenceDone(c)

RunStep(p) ==
    \/ \E skip \in BOOLEAN, force \in BOOLEAN : StartRun(p, skip, force)
    \/ Load(p)
    \/ UpdRead(p)
    \/ UpdWriteMeta(p)
    \/ \E i \in 1..Len(ContentOrder) : UpdWriteContent(p, i)
    \/ Route(p)
    \/ Local(p)
    \/ Remote(p)
    \/ Step2(p)
    \/ Anonymize(p)
    \/ Step3(p)
    \/ Llm(p)

\* ------------------------------------------------------------------------
\* services/whisper/config.ts: resample
\* ------------------------------------------------------------------------
\* A sample is a finite number, held as a fraction in lowest terms with a
\* positive denominator.
RECURSIVE Gcd(_, _)
Gcd(a, b) == IF b = 0 THEN a ELSE Gcd(b, a % b)

Abs(x) == IF x < 0 THEN -x ELSE x

Reduce(num, den) ==
    LET g == Gcd(Abs(num), den)
    IN  [num |-> num \div g, den |-> den \div g]

Lcm(a, b) == (a \div Gcd(a, b)) * b

\* The arithmetic of the language is IEEE-754 double precision.  A positive
\* double is held as [m, k], standing for m * 2^(-k), where m is an integer
\* of exactly 53 bits.  m is held in four limbs of 15 bits, the lowest first.
LimbBase == 2 ^ 15

Limbs == 1..4

BigFromInt(n) == <<n % LimbBase, n \div LimbBase, 0, 0>>

BigToInt(x) == x[1] + LimbBase * x[2]

\* 2 * x + bit
BigDouble(x, bit) ==
    LET half == LimbBase \div 2
    IN  <<(2 * x[1] + bit) % LimbBase,
          (2 * x[2] + x[1] \div half) % LimbBase,
          (2 * x[3] + x[2] \div half) % LimbBase,
          (2 * x[4] + x[3] \div half) % LimbBase>>

\* floor(x / 2)
BigHalve(x) ==
    LET half == LimbBase \div 2
    IN  <<x[1] \div 2 + (x[2] % 2) * half,
          x[2] \div 2 + (x[3] % 2) * half,
          x[3] \div 2 + (x[4] % 2) * half,
          x[4] \div 2>>

BigGreater(x, y) ==
    \E i \in Limbs : x[i] > y[i] /\ \A j \in Limbs : j > i => x[j] = y[j]

RECURSIVE BigSubFrom(_, _, _, _)
BigSubFrom(x, y, i, borrow) ==
    IF i > 4 THEN <<>>
    ELSE LET d == x[i] - y[i] - borrow
         IN  <<IF d < 0 THEN d + LimbBase ELSE d>>
             \o BigSubFrom(x, y, i + 1, IF d < 0 THEN 1 ELSE 0)

\* x - y, for x >= y
BigSub(x, y) == BigSubFrom(x, y, 1, 0)

RECURSIVE BigIncFrom(_, _, _)
BigIncFrom(x, i, carry) ==
    IF i > 4 THEN <<>>
    ELSE LET v == x[i] + carry
         IN  <<v % LimbBase>> \o BigIncFrom(x, i + 1, v \div LimbBase)

BigInc(x) == BigIncFrom(x, 1, 1)

BigIsOdd(x) == x[1] % 2 = 1

\* 2^52 <= x: x has 53 bits or more
Has53Bits(x) == x[4] >= 128

\* One bit of the binary long division of a by b; the division stops when
\* the quotient has 53 bits
QuotientBit(st, b) ==
    IF Has53Bits(st.m) THEN st
    ELSE [m   |-> BigDouble(st.m, (2 * st.rem) \div b),
          rem |-> (2 * st.rem) % b,
          k   |-> st.k + 1]

QuotientBits8(st, b) ==
    QuotientBit(QuotientBit(QuotientBit(QuotientBit(
    QuotientBit(QuotientBit(QuotientBit(QuotientBit(st, b), b), b), b),
    b), b), b), b)

RECURSIVE QuotientBits(_, _)
QuotientBits(st, b) ==
    IF Has53Bits(st.m) THEN st ELSE QuotientBits(QuotientBits8(st, b), b)

\* a / b for integers 0 < a, b < 2^30: the quotient rounded to the nearest
\* double, ties to even
DivideInts(a, b) ==
    LET q  == QuotientBits([m |-> BigFromInt(a \div b), rem |-> a % b, k |-> 0], b)
        up == 2 * q.rem > b \/ (2 * q.rem = b /\ BigIsOdd(q.m))
        m  == IF up THEN BigInc(q.m) ELSE q.m
    IN  IF m[4] >= 256 THEN [m |-> BigHalve(m), k |-> q.k - 1]
        ELSE [m |-> m, k |-> q.k]

\* The binary long division of n * 2^k by d.m is complete: the k bits of the
\* integer part are out, and then fraction bits until the quotient has 53
DivisionDone(st) == st.k = 0 /\ Has53Bits(st.q)

\* One bit of that division; f counts the fraction bits
DivideStep(st, d) ==
    IF DivisionDone(st) THEN st
    ELSE LET r2  == BigDouble(st.rem, 0)
             bit == IF BigGreater(d.m, r2) THEN 0 ELSE 1
         IN  [q   |-> BigDouble(st.q, bit),
              rem |-> IF bit = 1 THEN BigSub(r2, d.m) ELSE r2,
              k   |-> IF st.k > 0 THEN st.k - 1 ELSE 0,
              f   |-> IF st.k > 0 THEN 0 ELSE st.f + 1]

DivideSteps8(st, d) ==
    DivideStep(DivideStep(DivideStep(DivideStep(
    DivideStep(DivideStep(DivideStep(DivideStep(st, d), d), d), d),
    d), d), d), d)

RECURSIVE DivideSteps(_, _)
DivideSteps(st, d) ==
    IF DivisionDone(st) THEN st ELSE DivideSteps(DivideSteps8(st, d), d)

\* floor(x / 2^f)
BigShiftRight(x, f) ==
    LET p       == 2 ^ (f % 15)
        Limb(i) == IF i + f \div 15 <= 4 THEN x[i + f \div 15] ELSE 0
        Part(i) == Limb(i) \div p + (Limb(i + 1) % p) * (LimbBase \div p)
    IN  <<Part(1), Part(2), Part(3), Part(4)>>

\* Math.floor(n / d) for an integer 0 <= n < 2^30 and a double d >= 2^(-22):
\* the quotient is rounded to the nearest double before the floor is taken
FloorOfQuotient(n, d) ==
    IF n = 0 THEN 0
    ELSE LET st == DivideSteps([q |-> BigFromInt(0), rem |-> BigFromInt(n),
                                k |-> d.k, f |-> 0], d)
             r2 == BigDouble(st.rem, 0)
             up == BigGreater(r2, d.m) \/ (r2 = d.m /\ BigIsOdd(st.q))
             q  == IF up THEN BigInc(st.q) ELSE st.q
         IN  BigToInt(BigShiftRight(q, st.f))

\* const ratio = fromRate / toRate;
\* const outputLength = Math.floor(samples.length / ratio);
OutputLength(length, fromRate, toRate) ==
    FloorOfQuotient(length, DivideInts(fromRate, toRate))

Interpolate_WeightsSwapped(samples, i, fromRate, toRate) ==
    LET srcFloor == (i * fromRate) \div toRate
        srcCeil  == IF srcFloor + 1 < Len(samples) - 1
                    THEN srcFloor + 1 ELSE Len(samples) - 1
        frac     == Reduce((i * fromRate) % toRate, toRate)
        lo       == samples[srcFloor + 1]
        hi       == samples[srcCeil + 1]
        den      == Lcm(lo.den, hi.den)
    IN  Reduce(lo.num * (den \div lo.den) * frac.num
                   + hi.num * (den \div hi.den) * (frac.den - frac.num),
               den * frac.den)

\* samples[srcFloor] * (1 - frac) + samples[srcCeil] * frac, where
\* srcIndex = i * ratio.  The position and the weights are taken from the
\* exact quotient fromRate / toRate; when the rates are equal this is the
\* value the doubles give (ratio = 1, frac = 0), otherwise the roundings of
\* the products and of the sum are left out.
Interpolate(samples, i, fromRate, toRate) ==
    LET srcFloor == (i * fromRate) \div toRate
        srcCeil  == IF srcFloor + 1 < Len(samples) - 1
                    THEN srcFloor + 1 ELSE Len(samples) - 1
        frac     == Reduce((i * fromRate) % toRate, toRate)
        lo       == samples[srcFloor + 1]
        hi       == samples[srcCeil + 1]
        den      == Lcm(lo.den, hi.den)
    IN  Reduce(lo.num * (den \div lo.den) * (frac.den - frac.num)
                   + hi.num * (den \div hi.den) * frac.num,
               den * frac.den)

resample(samples, fromRate, toRate) ==
    [i \in 1..OutputLength(Len(samples), fromRate, toRate) |->
        Interpolate(samples, i - 1, fromRate, toRate)]

\* ------------------------------------------------------------------------
\* services/whisper/config.ts: parseWavToFloat32, extractPcmSamples
\* ------------------------------------------------------------------------
\* A file is a sequence of bytes (0..255); offsets count from 0 as in the
\* source.  A call either returns samples or throws.
Returned(samples) == [ok |-> TRUE, error |-> "", samples |-> samples]

Thrown(message) == [ok |-> FALSE, error |-> message, samples |-> <<>>]

\* Thrown by String.fromCodePoint(undefined), by a DataView read past the
\* end of the buffer and by new Float32Array(Infinity)
RangeError == "RangeError"

NotRiff == "Not a valid WAV file: expected RIFF header"

NotWave == "Not a valid WAV file: expected WAVE format"

UnsupportedFormat == "Unsupported WAV format: expected PCM (1)"

UnsupportedBitDepth == "Unsupported PCM bit depth"

NoDataChunk == "No data chunk found in WAV file."

\* The four characters 'RIFF', 'WAVE', 'fmt ', 'data' and 'LIST'
RIFF == <<82, 73, 70, 70>>

WAVE == <<87, 65, 86, 69>>

FMT == <<102, 109, 116, 32>>

DATA == <<100, 97, 116, 97>>

LIST == <<76, 73, 83, 84>>

\* String.fromCodePoint(bytes[i], bytes[i + 1], bytes[i + 2], bytes[i + 3])
FourChars(bytes, i) == SubSeq(bytes, i + 1, i + 4)

\* view.getUint16(i, true), view.getUint32(i, true), view.getInt16(i, true);
\* the sizes of the sampled files are below 2^31
getUint16(bytes, i) == bytes[i + 1] + 256 * bytes[i + 2]

getUint32(bytes, i) ==
    bytes[i + 1] + 256 * bytes[i + 2] + 65536 * bytes[i + 3]
        + 16777216 * bytes[i + 4]

getInt16(bytes, i) ==
    LET u == getUint16(bytes, i) IN IF u >= 32768 THEN u - 65536 ELSE u

\* sum of the channels of frame i, as an integer over a common denominator
RECURSIVE SumChannels(_, _, _, _, _, _)
SumChannels(bytes, dataStart, bitsPerSample, numChannels, i, ch) ==
    IF ch = numChannels THEN 0
    ELSE LET sampleOffset == dataStart + (i * numChannels + ch) * (bitsPerSample \div 8)
         IN  (IF bitsPerSample = 16 THEN getInt16(bytes, sampleOffset)
              ELSE bytes[sampleOffset + 1] - 128)
             + SumChannels(bytes, dataStart, bitsPerSample, numChannels, i, ch + 1)

\* monoSamples[i] = sum / numChannels, each sample being sample / 32768 (16
\* bits) or (sample - 128) / 128 (8 bits); exact in single precision for the
\* one or two channels of the sampled files
MonoSample(bytes, dataStart, bitsPerSample, numChannels, i) ==
    Reduce(SumChannels(bytes, dataStart, bitsPerSample, numChannels, i, 0),
           (IF bitsPerSample = 16 THEN 32768 ELSE 128) * numChannels)

\* if (sampleRate === targetRate) return monoSamples;
\* return resample(monoSamples, sampleRate, targetRate);
\* With sampleRate 0 the ratio is 0 and the output length is Infinity (a
\* RangeError) or, for no samples, NaN (an empty array).
ToTargetRate(monoSamples, sampleRate) ==
    IF sampleRate = 16000 THEN Returned(monoSamples)
    ELSE IF sampleRate = 0
         THEN (IF Len(monoSamples) = 0 THEN Returned(<<>>) ELSE Thrown(RangeError))
         ELSE Returned(resample(monoSamples, sampleRate, 16000))

\* totalSamples = floor(dataLength / (bytesPerSample * numChannels)); with a
\* zero divisor it is Infinity (a RangeError) or, for no data, NaN (an empty
\* array).  A bit depth other than 8, 16 and 32 throws at the first sample.
\* dataLength never exceeds the bytes that are there, so the `break` of the
\* inner loop is never taken for 8 and 16 bits.  32-bit samples are not among
\* the sampled files (their values need 31 bits and a rounding to single
\* precision).
extractPcmSamples(bytes, dataStart, dataLength, bitsPerSample, numChannels, sampleRate) ==
    LET totalSamples == (8 * dataLength) \div (bitsPerSample * numChannels)
    IN  IF bitsPerSample * numChannels = 0
        THEN (IF dataLength > 0 THEN Thrown(RangeError)
              ELSE ToTargetRate(<<>>, sampleRate))
        ELSE IF totalSamples > 0 /\ bitsPerSample \notin {8, 16}
        THEN Thrown(UnsupportedBitDepth)
        ELSE ToTargetRate(
                 [i \in 1..totalSamples |->
                     MonoSample(bytes, dataStart, bitsPerSample, numChannels, i - 1)],
                 sampleRate)

\* let audioFormat = 0; let numChannels = 0; let sampleRate = 0; ...
NoFormat ==
    [audioFormat |-> 0, numChannels |-> 0, sampleRate |-> 0, bitsPerSample |-> 0]

\* The chunk walk: while (offset < bytes.length - 8) { ... }
RECURSIVE ChunkWalk(_, _, _)
ChunkWalk(bytes, offset, fmt) ==
    IF ~(offset < Len(bytes) - 8) THEN Thrown(NoDataChunk)
    ELSE LET chunkId   == FourChars(bytes, offset)
             chunkSize == getUint32(bytes, offset + 4)
         IN  IF chunkId = FMT
             THEN IF offset + 24 > Len(bytes) THEN Thrown(RangeError)
                  ELSE ChunkWalk(bytes,
                           offset + 8 + chunkSize + (chunkSize % 2),
                           [audioFormat   |-> getUint16(bytes, offset + 8),
                            numChannels   |-> getUint16(bytes, offset + 10),
                            sampleRate    |-> getUint32(bytes, offset + 12),
                            bitsPerSample |-> getUint16(bytes, offset + 22)])
             ELSE IF chunkId = DATA
             THEN LET dataStart  == offset + 8
                      dataLength == IF chunkSize < Len(bytes) - dataStart
                                    THEN chunkSize ELSE Len(bytes) - dataStart
                  IN  IF fmt.audioFormat # 1 THEN Thrown(UnsupportedFormat)
                      ELSE extractPcmSamples(bytes, dataStart, dataLength,
                               fmt.bitsPerSample, fmt.numChannels, fmt.sampleRate)
             ELSE ChunkWalk(bytes, offset + 8 + chunkSize + (chunkSize % 2), fmt)

parseWavToFloat32(bytes) ==
    IF Len(bytes) < 4 THEN Thrown(RangeError)
    ELSE IF FourChars(bytes, 0) # RIFF THEN Thrown(NotRiff)
    ELSE IF Len(bytes) < 12 THEN Thrown(RangeError)
    ELSE IF FourChars(bytes, 8) # WAVE THEN Thrown(NotWave)
    ELSE ChunkWalk(bytes, 12, NoFormat)

\* ---- parseWavToFloat32 applied to sampled files ----
MaxFrames == 3

\* 16-bit sample values: silence and the two ends of the range
FrameValues == {0, 32767, -32768}

FrameSeqs == UNION {[1..n -> FrameValues] : n \in 0..MaxFrames}

Le16(v) == <<v % 256, v \div 256>>

Le32(v) == <<v % 256, (v \div 256) % 256, (v \div 65536) % 256, v \div 16777216>>

RECURSIVE PcmBytes(_)
PcmBytes(frames) ==
    IF frames = <<>> THEN <<>>
    ELSE Le16(IF Head(frames) < 0 THEN Head(frames) + 65536 ELSE Head(frames))
         \o PcmBytes(Tail(frames))

\* A chunk: id, size, body, and a padding byte after a body of odd size
Chunk(id, body) ==
    id \o Le32(Len(body)) \o body \o (IF Len(body) % 2 = 1 THEN <<0>> ELSE <<>>)

FmtChunk(audioFormat, numChannels, sampleRate, bitsPerSample) ==
    Chunk(FMT,
          Le16(audioFormat) \o Le16(numChannels) \o Le32(sampleRate)
          \o Le32((sampleRate * numChannels * bitsPerSample) \div 8)
          \o Le16((numChannels * bitsPerSample) \div 8) \o Le16(bitsPerSample))

RiffWave(chunks) == RIFF \o Le32(4 + Len(chunks)) \o WAVE \o chunks

\* The standard 44-byte header of a 16-bit mono 16 kHz PCM file, followed by
\* the frames
StandardWav(frames) ==
    RiffWave(FmtChunk(1, 1, 16000, 16) \o Chunk(DATA, PcmBytes(frames)))

\* Chunks that may stand between the fmt chunk and the data chunk
ExtraChunks == {<<>>, Chunk(LIST, <<1, 2>>), Chunk(LIST, <<1>>)}

WellFormedWavs ==
    {RiffWave(FmtChunk(format, channels, rate, bits) \o extra
              \o Chunk(DATA, PcmBytes(frames))) :
        format \in {1, 3}, channels \in {1, 2}, rate \in {16000, 8000},
        bits \in {16, 8, 24}, extra \in ExtraChunks, frames \in FrameSeqs}

MalformedWavs ==
    {<<>>,
     RIFF \o Le32(0),
     <<82, 73, 70, 88>> \o Tail(Tail(Tail(Tail(StandardWav(<<0>>))))),
     RIFF \o Le32(38) \o <<87, 65, 86, 88>>
         \o FmtChunk(1, 1, 16000, 16) \o Chunk(DATA, PcmBytes(<<0>>)),
     RiffWave(FmtChunk(1, 1, 16000, 16)),
     RiffWave(FmtChunk(1, 1, 16000, 16) \o Chunk(LIST, <<1, 2>>)),
     SubSeq(StandardWav(<<>>), 1, 28),
     RiffWave(FmtChunk(1, 1, 16000, 16) \o DATA \o Le32(8) \o PcmBytes(<<0, 32767>>)),
     RiffWave(Chunk(DATA, PcmBytes(<<0>>)) \o FmtChunk(1, 1, 16000, 16))}

WavInit ==
    /\ audioPc = "input"
    /\ audioIn \in WellFormedWavs \cup MalformedWavs
    /\ audioOut = <<>>

ParseWav ==
    /\ audioPc = "input"
    /\ audioPc' = "done"
    /\ audioOut' = parseWavToFloat32(audioIn)
    /\ UNCHANGED <<audioIn, tokVars, piiVars, storeVars, runVars, whisperVars>>

WavNext == ParseWav

\* ---- resample applied to sampled inputs ----
MaxSamples == 5

SampleValues ==
    {[num |-> 0, den |-> 1], [num |-> 1, den |-> 2], [num |-> -1, den |-> 1]}

\* 10 ms of silence at 48 kHz
Silence == [i \in 1..480 |-> [num |-> 0, den |-> 1]]

SampleSeqs ==
    UNION {[1..n -> SampleValues] : n \in 0..MaxSamples} \cup {Silence}

\* <<fromRate, toRate>>
RatePairs ==
    {<<16000, 16000>>, <<1, 1>>, <<16000, 8000>>, <<8000, 16000>>,
     <<44100, 16000>>, <<48000, 44100>>, <<5, 29>>, <<3, 1>>}

ResampleInit ==
    /\ audioPc = "input"
    /\ audioIn \in {[samples |-> x, fromRate |-> r[1], toRate |-> r[2]] :
                        x \in SampleSeqs, r \in RatePairs}
    /\ audioOut = <<>>

Resample ==
    /\ audioPc = "input"
    /\ audioPc' = "done"
    /\ audioOut' = resample(audioIn.samples, audioIn.fromRate, audioIn.toRate)
    /\ UNCHANGED <<audioIn, tokVars, piiVars, storeVars, runVars, whisperVars>>

ResampleNext == Resample

\* ------------------------------------------------------------------------
\* services/gliner/tokenizer.ts
\* ------------------------------------------------------------------------
\* A string is a sequence of character codes; the characters of the sampled
\* definitions and words are below U+0800.
SpaceChar == 32

HashChar == 35

\* '[UNK]' and '<unk>'
UnkBracket == <<91, 85, 78, 75, 93>>

UnkAngle == <<60, 117, 110, 107, 62>>

\* A Map is a function whose domain is the set of its keys
EmptyMap == [k \in {} |-> 0]

MapSet(m, k, v) == [x \in DOMAIN m \cup {k} |-> IF x = k THEN v ELSE m[x]]

\* The elements of a set of numbers in ascending order
Ascending(S) ==
    [i \in 1..Cardinality(S) |->
        CHOOSE x \in S : Cardinality({y \in S : y < x}) = i - 1]

PrintableBytes_Shifted == (33..126) \cup (161..172) \cup (173..254)

\* for (let i = 33; i <= 126; i++) ...; 161..172; 174..255
PrintableBytes == (33..126) \cup (161..172) \cup (174..255)

\* buildByteEncoder: bs holds the printable bytes and then, in the order of
\* the loop over b = 0..255, the bytes that are not among them; cs holds the
\* printable bytes and then 256 + n for n = 0, 1, ...; the encoder maps
\* bs[i] to the character cs[i].
buildByteEncoder ==
    LET rest == Ascending((0..255) \ PrintableBytes)
        bs   == Ascending(PrintableBytes) \o rest
        cs   == Ascending(PrintableBytes) \o [n \in 1..Len(rest) |-> 256 + (n - 1)]
    IN  [b \in 0..255 |-> cs[CHOOSE i \in 1..Len(bs) : bs[i] = b]]

\* A merge of the definition is a string 'a b' or an array of strings
MergeString(text) == [isArray |-> FALSE, text |-> text, parts |-> <<>>]

MergeArray(parts) == [isArray |-> TRUE, text |-> <<>>, parts |-> parts]

\* merge.join(' ')
RECURSIVE JoinSpace(_)
JoinSpace(parts) ==
    IF parts = <<>> THEN <<>>
    ELSE IF Len(parts) = 1 THEN parts[1]
    ELSE parts[1] \o <<SpaceChar>> \o JoinSpace(Tail(parts))

MergeKey(merge) == IF merge.isArray THEN JoinSpace(merge.parts) ELSE merge.text

\* for (let i = 0; i < model.merges.length; i++) this.mergeRanks.set(key, i)
RECURSIVE BuildMergeRanks(_, _, _)
BuildMergeRanks(merges, i, ranks) ==
    IF i >= Len(merges) THEN ranks
    ELSE BuildMergeRanks(merges, i + 1, MapSet(ranks, MergeKey(merges[i + 1]), i))

\* for (const at of tokenizerJson.added_tokens) { addedTokens.set; vocab.set }
RECURSIVE AddTokens(_, _)
AddTokens(added, m) ==
    IF added = <<>> THEN m
    ELSE AddTokens(Tail(added), MapSet(m, Head(added).content, Head(added).id))

\* this.vocab.get('[UNK]') ?? this.vocab.get('<unk>') ?? 0
UnkTokenId(vocab) ==
    IF UnkBracket \in DOMAIN vocab THEN vocab[UnkBracket]
    ELSE IF UnkAngle \in DOMAIN vocab THEN vocab[UnkAngle]
    ELSE 0

\* new BPETokenizer(tokenizerJson)
BPETokenizer(json) ==
    LET vocab == AddTokens(json.added_tokens, json.vocab)
    IN  [vocab          |-> vocab,
         mergeRanks     |-> BuildMergeRanks(json.merges, 0, EmptyMap),
         addedTokens    |-> AddTokens(json.added_tokens, EmptyMap),
         byteEncoder    |-> buildByteEncoder,
         unkTokenId     |-> UnkTokenId(vocab),
         isByteLevelBPE |-> json.byteLevel,
         addPrefixSpace |-> json.addPrefixSpace]

\* TextEncoder.encode of one character (UTF-8, characters below U+0800)
Utf8(c) == IF c < 128 THEN <<c>> ELSE <<192 + (c \div 64), 128 + (c % 64)>>

RECURSIVE Utf8Bytes(_)
Utf8Bytes(str) ==
    IF str = <<>> THEN <<>> ELSE Utf8(Head(str)) \o Utf8Bytes(Tail(str))

\* for (const b of bytes) symbols.push(this.byteEncoder.get(b) ?? ...):
\* one symbol of one character per byte
ByteSymbols(tk, str) ==
    LET bytes == Utf8Bytes(str)
    IN  [i \in 1..Len(bytes) |-> <<tk.byteEncoder[bytes[i]]>>]

\* `${symbols[i]} ${symbols[i + 1]}`
PairKey(a, b) == a \o <<SpaceChar>> \o b

\* The scan for the best merge: rank !== undefined && rank < bestRank.
\* best is None, or Some([pair, rank]).
RECURSIVE ScanPairs(_, _, _, _)
ScanPairs(tk, symbols, i, best) ==
    IF ~(i < Len(symbols) - 1) THEN best
    ELSE LET pair == PairKey(symbols[i + 1], symbols[i + 2])
         IN  IF pair \in DOMAIN tk.mergeRanks
                /\ (best = None \/ tk.mergeRanks[pair] < Val(best).rank)
             THEN ScanPairs(tk, symbols, i + 1,
                            Some([pair |-> pair, rank |-> tk.mergeRanks[pair]]))
             ELSE ScanPairs(tk, symbols, i + 1, best)

\* bestPair.split(' '): the fields between the spaces
RECURSIVE SplitSpace(_, _)
SplitSpace(str, field) ==
    IF str = <<>> THEN <<field>>
    ELSE IF Head(str) = SpaceChar THEN <<field>> \o SplitSpace(Tail(str), <<>>)
    ELSE SplitSpace(Tail(str), Append(field, Head(str)))

Merged_DropsSecond(a, b) == a

\* const merged = a + b
Merged(a, b) == a \o b

\* while (i < symbols.length) { if (symbols[i] === a && symbols[i + 1] === b)
\* { push(merged); i += 2 } else { push(symbols[i]); i++ } }
RECURSIVE MergeOccurrences(_, _, _, _)
MergeOccurrences(symbols, a, b, i) ==
    IF ~(i < Len(symbols)) THEN <<>>
    ELSE IF i < Len(symbols) - 1 /\ symbols[i + 1] = a /\ symbols[i + 2] = b
    THEN <<Merged(a, b)>> \o MergeOccurrences(symbols, a, b, i + 2)
    ELSE <<symbols[i + 1]>> \o MergeOccurrences(symbols, a, b, i + 1)

\* The iterations of the loop of applyBPE that find a pair, each with the
\* pair it chose and the symbols before and after it
RECURSIVE BpeIterations(_, _)
BpeIterations(tk, symbols) ==
    LET best == ScanPairs(tk, symbols, 0, None)
    IN  IF best = None THEN <<>>
        ELSE LET ab         == SplitSpace(Val(best).pair, <<>>)
                 newSymbols == MergeOccurrences(symbols, ab[1], ab[2], 0)
             IN  <<[pair |-> Val(best).pair, before |-> symbols, after |-> newSymbols]>>
                 \o (IF Len(newSymbols) <= 1 THEN <<>>
                     ELSE BpeIterations(tk, newSymbols))

\* this.vocab.get(s) ?? this.unkTokenId
VocabId(tk, s) == IF s \in DOMAIN tk.vocab THEN tk.vocab[s] ELSE tk.unkTokenId

\* What a call of encodeWord returns (ids) and how it got there: the
\* byte-level symbols, the merge iterations, the WordPiece pieces
Encoded(ids, symbols, iterations, pieces) ==
    [ids |-> ids, symbols |-> symbols, iterations |-> iterations,
     pieces |-> pieces, error |-> ""]

encodeByteLevelBPE_NoShortcut(tk, word) ==
    LET toEncode   == IF tk.addPrefixSpace THEN <<SpaceChar>> \o word ELSE word
        symbols    == ByteSymbols(tk, toEncode)
        iterations == IF Len(symbols) <= 1 THEN <<>> ELSE BpeIterations(tk, symbols)
        final      == IF iterations = <<>> THEN symbols
                      ELSE iterations[Len(iterations)].after
    IN  Encoded([i \in 1..Len(final) |-> VocabId(tk, final[i])],
                symbols, iterations, <<>>)

encodeByteLevelBPE(tk, word) ==
    LET toEncode   == IF tk.addPrefixSpace THEN <<SpaceChar>> \o word ELSE word
        symbols    == ByteSymbols(tk, toEncode)
        iterations == IF Len(symbols) <= 1 THEN <<>> ELSE BpeIterations(tk, symbols)
        final      == IF iterations = <<>> THEN symbols
                      ELSE iterations[Len(iterations)].after
    IN  IF Len(symbols) = 0 THEN Encoded(<<tk.unkTokenId>>, symbols, <<>>, <<>>)
        ELSE IF Len(symbols) = 1
        THEN Encoded(<<VocabId(tk, symbols[1])>>, symbols, <<>>, <<>>)
        ELSE Encoded([i \in 1..Len(final) |-> VocabId(tk, final[i])],
                     symbols, iterations, <<>>)

PiecePrefix_Never(start) == <<>>

\* start > 0 ? '##' + ... : ...
PiecePrefix(start) == IF start > 0 THEN <<HashChar, HashChar>> ELSE <<>>

\* The inner loop: the largest end > start whose piece is in the vocabulary,
\* or -1
RECURSIVE LongestEnd(_, _, _, _)
LongestEnd(tk, word, start, end) ==
    IF ~(start < end) THEN -1
    ELSE IF PiecePrefix(start) \o Slice(word, start, end) \in DOMAIN tk.vocab
    THEN end
    ELSE LongestEnd(tk, word, start, end - 1)

\* The outer loop; each piece tells where it starts and ends and the id pushed
RECURSIVE WordPieces(_, _, _)
WordPieces(tk, word, start) ==
    IF ~(start < Len(word)) THEN <<>>
    ELSE LET end == LongestEnd(tk, word, start, Len(word))
         IN  IF end = -1
             THEN <<[start |-> start, end |-> start + 1, found |-> FALSE,
                     id |-> tk.unkTokenId]>>
                  \o WordPieces(tk, word, start + 1)
             ELSE <<[start |-> start, end |-> end, found |-> TRUE,
                     id |-> tk.vocab[PiecePrefix(start) \o Slice(word, start, end)]]>>
                  \o WordPieces(tk, word, end)

encodeWordPieceFallback(tk, word) ==
    IF word \in DOMAIN tk.vocab THEN Encoded(<<tk.vocab[word]>>, <<>>, <<>>, <<>>)
    ELSE LET pieces == WordPieces(tk, word, 0)
         IN  Encoded([i \in 1..Len(pieces) |-> pieces[i].id], <<>>, <<>>, pieces)

\* BPETokenizer.encodeWord
TokenizerEncodeWord(tk, word) ==
    IF word \in DOMAIN tk.addedTokens
    THEN Encoded(<<tk.addedTokens[word]>>, <<>>, <<>>, <<>>)
    ELSE IF tk.isByteLevelBPE THEN encodeByteLevelBPE(tk, word)
    ELSE encodeWordPieceFallback(tk, word)

\* ---- the tokenizer module applied to sampled definitions and words ----
MaxMerges == 3

MaxLetters == 3

\* 'a', 'b', 'c'
Letters == {97, 98, 99}

\* Words of letters, and two words with a two-byte character
TokenWords ==
    UNION {[1..n -> Letters] : n \in 0..MaxLetters} \cup {<<233>>, <<97, 233>>}

\* 'a b', ['b', 'c'], ['ab', 'c']
MergeRules ==
    {MergeString(<<97, 32, 98>>), MergeArray(<<<<98>>, <<99>>>>),
     MergeArray(<<<<97, 98>>, <<99>>>>)}

MergeLists == UNION {[1..n -> MergeRules] : n \in 0..MaxMerges}

MapOf(pairs) ==
    [k \in {p[1] : p \in pairs} |-> (CHOOSE p \in pairs : p[1] = k)[2]]

\* A vocabulary with '[UNK]' and no added tokens; one with '<unk>' and the
\* added tokens 'a' and 'ab'; one without an unknown token
SampleVocabs ==
    {[vocab |-> MapOf({<<UnkBracket, 0>>, <<<<97>>, 3>>, <<<<98>>, 4>>,
                       <<<<99>>, 5>>, <<<<97, 98>>, 6>>, <<<<97, 98, 99>>, 7>>,
                       <<<<35, 35, 98>>, 8>>, <<<<35, 35, 98, 99>>, 9>>,
                       <<<<288>>, 10>>, <<<<98, 99>>, 11>>}),
      added_tokens |-> <<>>],
     [vocab |-> MapOf({<<UnkAngle, 1>>, <<<<97>>, 3>>, <<<<35, 35, 99>>, 5>>,
                       <<<<98, 99>>, 6>>}),
      added_tokens |-> <<[content |-> <<97>>, id |-> 12],
                         [content |-> <<97, 98>>, id |-> 13]>>],
     [vocab |-> MapOf({<<<<98>>, 4>>, <<<<288, 97>>, 5>>}),
      added_tokens |-> <<>>]}

\* <<isByteLevelBPE, addPrefixSpace>>
SampleModes == {<<FALSE, FALSE>>, <<TRUE, FALSE>>, <<TRUE, TRUE>>}

TokenizerJsons ==
    {[vocab |-> v.vocab, added_tokens |-> v.added_tokens, merges |-> m,
      byteLevel |-> mode[1], addPrefixSpace |-> mode[2]] :
        v \in SampleVocabs, m \in MergeLists, mode \in SampleModes}

NotInitialized == "Tokenizer not initialized"

NoOutput == [ids |-> <<>>, symbols |-> <<>>, iterations |-> <<>>,
             pieces |-> <<>>, error |-> ""]

TokInit ==
    /\ tokPc = "new"
    /\ tokJson \in TokenizerJsons
    /\ tokenizer = None
    /\ tokWord = <<>>
    /\ tokOut = NoOutput

\* initTokenizer(tokenizerJson)
InitTokenizer ==
    /\ tokPc = "new"
    /\ tokenizer' = Some(BPETokenizer(tokJson))
    /\ tokPc' = "ready"
    /\ UNCHANGED <<tokJson, tokWord, tokOut, audioVars, piiVars, storeVars,
                   runVars, whisperVars>>

\* encodeWord(word)
EncodeWord(word) ==
    /\ tokPc \in {"new", "ready"}
    /\ tokWord' = word
    /\ tokOut' = IF tokenizer = None
                 THEN [NoOutput EXCEPT !.error = NotInitialized]
                 ELSE TokenizerEncodeWord(Val(tokenizer), word)
    /\ tokPc' = IF tokenizer = None THEN "threw" ELSE "encoded"
    /\ UNCHANGED <<tokJson, tokenizer, audioVars, piiVars, storeVars, runVars,
                   whisperVars>>

TokNext == InitTokenizer \/ \E word \in TokenWords : EncodeWord(word)

\* One caller that awaits each run before it starts the next (the recording
\* screen disables its buttons while `retrying`)
Next == RunStep("r1")

\* One caller, on a device whose file writes can fail
StorageNext == RunStep("r1") \/ UpdWriteRejects("r1")

\* Runs started from two screen instances overlap
OverlapNext == \E p \in Slots : RunStep(p)

PiiIdle ==
    /\ piiPc = "off" /\ piiText = <<>>
    /\ piiResult = EmptyResult /\ piiReversed = <<>>

\* No audio call is made
AudioIdle == audioPc = "off" /\ audioIn = <<>> /\ audioOut = <<>>

\* The tokenizer module is not used
TokIdle ==
    /\ tokPc = "off" /\ tokJson = <<>> /\ tokenizer = None
    /\ tokWord = <<>> /\ tokOut = <<>>

Init == PipelineInit /\ PiiIdle /\ WhisperIdle /\ AudioIdle /\ TokIdle

Spec == Init /\ [][Next]_vars

SpecOverlap == Init /\ [][OverlapNext]_vars

SpecStorage == Init /\ [][StorageNext]_vars

\* The anonymization harness: no pipeline run is started
PipelineIdle ==
    /\ PipelineInit
    /\ IsSome(meta.audioPath) /\ ~IsSome(project) /\ ~mistralKey

InitPii == PiiInit /\ PipelineIdle /\ WhisperIdle /\ AudioIdle /\ TokIdle

SpecPii == InitPii /\ [][PiiNext]_vars

\* Concurrent callers of the whisper module: no pipeline run is started
InitWhisper == WhisperInit /\ PipelineIdle /\ PiiIdle /\ AudioIdle /\ TokIdle

SpecWhisper == InitWhisper /\ [][WhisperNext]_vars

\* Callers of transcribeWithWhisper, ensureWhisperLoaded and unloadWhisper
SpecTranscribe == InitWhisper /\ [][TranscribeNext]_vars

InitReverse == ReverseInit /\ PipelineIdle /\ WhisperIdle /\ AudioIdle /\ TokIdle

\* reversePIIMappings on its own
SpecReverse == InitReverse /\ [][ReverseNext]_vars

InitWav == WavInit /\ PipelineIdle /\ PiiIdle /\ WhisperIdle /\ TokIdle

\* parseWavToFloat32 on its own
SpecWav == InitWav /\ [][WavNext]_vars

InitResample == ResampleInit /\ PipelineIdle /\ PiiIdle /\ WhisperIdle /\ TokIdle

\* resample on its own
SpecResample == InitResample /\ [][ResampleNext]_vars

InitTok ==
    TokInit /\ PipelineIdle /\ PiiIdle /\ WhisperIdle /\ AudioIdle

\* The tokenizer on its own
SpecTok == InitTok /\ [][TokNext]_vars

\* ------------------------------------------------------------------------
\* Properties
\* ------------------------------------------------------------------------
Rank(status) ==
    CASE status = "pending"      -> 0
      [] status = "transcribing" -> 1
      [] status = "anonymizing"  -> 2
      [] status = "processing"   -> 3
      [] status = "done"         -> 4
      [] OTHER                   -> 5

\* The run of slot p is inside its last updateRecording call
UpdatePcs == {"u_read", "u_meta"} \cup {ContentPc(ContentOrder[i]) : i \in 1..Len(ContentOrder)}

Ending(p) == pc[p] \in UpdatePcs /\ loc[p].ret = "idle"

\* C1 (as stated): across all runs on the recording the persisted status
\* never moves backward in pending < transcribing < anonymizing < processing
\* < done, except into error.
C1_StatusNeverRegresses ==
    [][(meta.status # "error" /\ meta'.status # "error")
          => Rank(meta'.status) >= Rank(meta.status)]_vars

\* C1 (amended): the status values one run passes to updateRecording are
\* strictly increasing in transcribing < anonymizing < processing < done, and
\* error is written only as the run's last status.
C1_RunStatusesForward ==
    \A p \in Slots :
        LET log == trace[p].statusLog
        IN  \A i \in 1..Len(log) : \A j \in 1..Len(log) :
                i < j => /\ log[i] # "error"
                         /\ \/ log[j] = "error" /\ j = Len(log)
                            \/ log[j] # "error" /\ Rank(log[i]) < Rank(log[j])

\* A retry that re-used the transcript of an earlier run and has written
\* anonymizing, processing, done after the earlier run had reached a status
C1_Witness ==
    /\ started >= 2
    /\ trace["r1"].reused
    /\ trace["r1"].statusLog = <<"anonymizing", "processing", "done">>

\* C2: a run whose local transcription failed, with a Mistral key configured,
\* goes on to the remote transcription call instead of ending in error.
C2_LocalFailureFallsBack ==
    \A p \in Slots :
        (trace[p].localFailed /\ mistralKey /\ IsSome(trace[p].thrown))
            => "remote" \in trace[p].calls

C4_ErrorWriteChangesNothingElse ==
    [][\A p \in Slots :
          (pc[p] = "u_meta" /\ pc'[p] # "u_meta" /\ loc[p].data.status = Some("error"))
             => /\ meta'.status = "error"
                /\ meta'.errorMessage = loc[p].data.errorMessage
                /\ meta'.audioPath = meta.audioPath
                /\ meta'.piiMappings = meta.piiMappings
                /\ files' = files]_vars

\* C5: at most one load is in flight, and a call that entered while another
\* caller's load was in flight has returned false without starting a load.
C5_SingleLoadInFlight ==
    /\ Cardinality(LoadsInFlight) <= 1
    /\ \A c \in Callers :
          wTrace[c].busyAtEntry =>
              /\ wPc[c] = "idle"
              /\ wTrace[c].result = Some(FALSE)
              /\ ~wTrace[c].startedLoad

\* A call was refused as busy while another caller's load is still in flight
C5_Witness ==
    \E c \in Callers, d \in Callers :
        /\ c # d
        /\ wTrace[c].busyAtEntry /\ wTrace[c].result = Some(FALSE)
        /\ wPc[d] = "load"

\* C6: updates of one recording do not interleave: every metadata write
\* leaves the record as the written update applied to the record as it is,
\* so no field another update wrote in between is lost.
C6_UpdatesDoNotInterleave ==
    [][\A p \in Slots :
          (pc[p] = "u_meta" /\ pc'[p] # "u_meta")
             => meta' = ApplyMeta(meta, loc[p].data)]_vars

\* C7: for every text in which PII is detected, reverse(anonymize(text))
\* equals the text.
C7_RoundTrip ==
    (piiPc = "reversed" /\ piiResult.mappings # <<>>) => piiReversed = piiText

\* C8: every key of the returned mapping occurs literally in the returned
\* anonymized text.
C8_KeysOccurInText ==
    piiPc \in {"anonymized", "reversed"} =>
        \A i \in 1..Len(piiResult.mappings) :
            Contains(piiResult.anonymized, piiResult.mappings[i].key)

\* Number of distinct case-insensitive values detected for a category
DistinctValues(text, type) ==
    LET ms == CollectMatches(text)
    IN  Cardinality({ToLower(ms[i].value) : i \in {j \in 1..Len(ms) : ms[j].type = type}})

\* C9: a category with k distinct (case-insensitive) values uses exactly the
\* placeholders numbered 1..k.
C9_CountersDense ==
    piiPc \in {"anonymized", "reversed"} =>
        \A cat \in {[type |-> "email", chars |-> PII_PATTERNS[2].chars],
                    [type |-> "person", chars |-> PersonChars]} :
            LET used == {piiResult.mappings[i].key : i \in 1..Len(piiResult.mappings)}
                ofCat == {k \in used : Slice(k, 0, Len(cat.chars) + 1) = <<"<">> \o cat.chars}
                n == DistinctValues(piiText, cat.type)
            IN  ofCat = {Placeholder(cat.chars, i) : i \in 1..n}

\* C10: the text handed to the generation service is the anonymized text
\* when anonymization ran in this run and produced output, and the raw
\* transcript otherwise.
C10_TextSentToGeneration ==
    \A p \in Slots :
        IsSome(trace[p].sent) =>
            Val(trace[p].sent) =
                IF "anonymize" \in trace[p].calls /\ Val(trace[p].anonOut) # <<>>
                THEN Val(trace[p].anonOut)
                ELSE Val(trace[p].transcript)

\* Generation was handed the placeholder text, not the raw transcript
C10_Witness ==
    \E p \in Slots :
        /\ IsSome(trace[p].sent)
        /\ "anonymize" \in trace[p].calls
        /\ Val(trace[p].sent) = Placeholder(PersonChars, 1)
        /\ Val(trace[p].transcript) = TextAnnBob

\* The text run p is to persist as llmOutput, from what the generation
\* service returned to it and the transcript it worked on
ExpectedLlmOutput(p) ==
    IF "anonymize" \in trace[p].calls
    THEN reversePIIMappings(Val(trace[p].generated),
                            anonymizeTranscription(Val(trace[p].transcript)).mappings)
    ELSE Val(trace[p].generated)

\* C11: the llmOutput a run persists is reverse(generated output, mapping of
\* this run) when anonymization ran in the run and the generated output
\* unchanged when it did not, and with generation enabled status done is
\* written only after the generation call has returned.
C11_PersistedLlmOutput ==
    [][\A p \in Slots :
          /\ (pc[p] = ContentPc("llmOutput") /\ pc'[p] # pc[p])
                => /\ IsSome(trace[p].generated)
                   /\ files'.llmOutput = Some(ExpectedLlmOutput(p))
          /\ (pc[p] = "u_meta" /\ pc'[p] # pc[p] /\ meta'.status = "done"
                /\ Val(project).enableLlm)
                => /\ IsSome(trace[p].generated)
                   /\ loc[p].data.llmOutput = Some(ExpectedLlmOutput(p))]_vars

\* A run is about to persist "Ann Bob" for the generated text "<person 1>"
C11_Witness ==
    \E p \in Slots :
        /\ pc[p] = ContentPc("llmOutput")
        /\ "anonymize" \in trace[p].calls
        /\ trace[p].generated = Some(Placeholder(PersonChars, 1))
        /\ loc[p].data.llmOutput = Some(TextAnnBob)

\* The source tag a reader of the stored record finds: the metadata object
\* is the only place updateRecording could keep it
StoredSourceTag ==
    IF "transcriptionSource" \in DOMAIN meta THEN meta.transcriptionSource ELSE None

\* Run p has obtained a transcript from the local or the remote service
Transcribed(p) == trace[p].calls \cap {"local", "remote"} # {} /\ IsSome(trace[p].transcript)

SourceTag(p) == IF "local" \in trace[p].calls THEN "whisper" ELSE "voxtral-api"

\* Run p has called updateRecording with this status
StatusSet(p, status) ==
    \E i \in 1..Len(trace[p].statusLog) : trace[p].statusLog[i] = status

\* The transcript of run p is stored by the time a later status is set
TranscriptStoredFirst(p) ==
    (Transcribed(p) /\ (StatusSet(p, "anonymizing") \/ StatusSet(p, "processing")))
        => files.transcription = trace[p].transcript

\* The anonymized text and mapping of run p are stored by the time status
\* processing is set
AnonymizedStoredFirst(p) ==
    ("anonymize" \in trace[p].calls /\ StatusSet(p, "processing"))
        => /\ files.anonymizedTranscription = trace[p].anonOut
           /\ meta.piiMappings = loc[p].piiMappings

\* C12: in a run that transcribes, the transcript and its source tag are
\* stored before status anonymizing or processing is set, and the anonymized
\* text and mapping are stored before status processing is set.
C12_PersistedBeforeNextStatus ==
    \A p \in Slots :
        /\ TranscriptStoredFirst(p)
        /\ AnonymizedStoredFirst(p)
        /\ (Transcribed(p) /\ (StatusSet(p, "anonymizing") \/ StatusSet(p, "processing")))
              => StoredSourceTag = Some(SourceTag(p))

\* C13: a run that takes the remote transcription path with no Mistral key
\* configured makes no remote transcription call and writes no transcript;
\* its only remaining update writes status error with the message that no
\* transcription method is available, and then the run is over.
C13_MissingKeyIsFatal ==
    [][\A p \in Slots :
          (trace[p].remotePath /\ ~mistralKey) =>
              /\ "remote" \notin trace[p].calls
              /\ trace[p].wrote \cap {"transcription", "transcriptionData"} = {}
              /\ trace[p].thrown = Some(ErrNoMethod)
              /\ loc[p].data = ErrorData(ErrNoMethod)
              /\ pc[p] \in {"u_read", "u_meta"}
              /\ (pc[p] = "u_meta" /\ pc'[p] # pc[p])
                    => /\ pc'[p] = "idle"
                       /\ meta'.status = "error"
                       /\ meta'.errorMessage = Some(ErrNoMethod)
                       /\ files' = files]_vars

\* A run on the remote path without a key is about to write status error
C13_Witness ==
    \E p \in Slots :
        /\ trace[p].remotePath /\ ~mistralKey
        /\ pc[p] = "u_meta"
        /\ Val(loc[p].metaBuf).status = "error"

BothEnabled == Val(project).enableLlm /\ Val(project).enableAnonymization

\* Run p is in its last update without having failed before step 2
EndingPastTranscription(p) ==
    Ending(p) /\ trace[p].thrown \in {None, Some(ErrLlm)}

\* C14: a run sets status anonymizing and calls anonymize only when the
\* project has both anonymization and generation enabled, and then every
\* run that gets past transcription does both; when either is disabled no
\* update of the run carries anonymizedTranscription or piiMappings.
C14_AnonymizeIffBothEnabled ==
    \A p \in Slots :
        pc[p] \notin {"idle", "load"} =>
            /\ (StatusSet(p, "anonymizing") \/ "anonymize" \in trace[p].calls) => BothEnabled
            /\ "anonymize" \in trace[p].calls => StatusSet(p, "anonymizing")
            /\ (EndingPastTranscription(p) /\ BothEnabled)
                  => StatusSet(p, "anonymizing") /\ "anonymize" \in trace[p].calls
            /\ ~BothEnabled =>
                  /\ loc[p].data.anonymizedTranscription = None
                  /\ loc[p].data.piiMappings = None
                  /\ "anonymizedTranscription" \notin trace[p].wrote
                  /\ pc[p] # ContentPc("anonymizedTranscription")

\* A run of a project with both enabled is finishing after it has set
\* status anonymizing and called anonymize
C14_Witness ==
    \E p \in Slots :
        /\ EndingPastTranscription(p) /\ BothEnabled
        /\ StatusSet(p, "anonymizing")
        /\ "anonymize" \in trace[p].calls

\* C15: while a loaded module is held (a load has succeeded and
\* unloadWhisper was not called since), a call of ensureWhisperLoaded
\* returns true and starts no load, whatever variant the load had read.
C15_LoadIsIdempotent ==
    [][\A c \in Callers :
          (IsSome(sttModule) /\ wPc[c] = "idle")
              => /\ wPc'[c] = "idle"
                 /\ wTrace'[c] # wTrace[c] => wTrace'[c].result = Some(TRUE)]_vars

\* Every occurrence of `key` in s from offset k on replaced by `value`, the
\* value inserted character for character
RECURSIVE SubstituteVerbatim(_, _, _, _)
SubstituteVerbatim(s, k, key, value) ==
    IF k >= Len(s) THEN <<>>
    ELSE IF k + Len(key) <= Len(s) /\ Slice(s, k, k + Len(key)) = key
         THEN value \o SubstituteVerbatim(s, k + Len(key), key, value)
         ELSE <<s[k + 1]>> \o SubstituteVerbatim(s, k + 1, key, value)

RECURSIVE LiteralReverse(_, _)
LiteralReverse(text, mappings) ==
    IF mappings = <<>> THEN text
    ELSE LiteralReverse(SubstituteVerbatim(text, 0, Head(mappings).key, Head(mappings).value),
                        Tail(mappings))

\* C16: reverse(text, mapping) is the text with every occurrence of each key
\* replaced by exactly its value, key and value taken as literal strings,
\* and is the text itself when the mapping is empty.
C16_ReverseIsLiteral ==
    piiPc = "reversed" =>
        /\ piiReversed = LiteralReverse(piiResult.anonymized, piiResult.mappings)
        /\ piiResult.mappings = <<>> => piiReversed = piiResult.anonymized

\* A sample lies within [-1.0, 1.0]
InUnitRange(x) == -x.den <= x.num /\ x.num <= x.den

\* C17: for every N >= 0, a 16-bit mono 16 kHz PCM WAV with a standard
\* header followed by a data chunk of exactly N frames decodes without error
\* to exactly N samples, each within [-1.0, 1.0]
C17_StandardWavDecodes ==
    audioPc = "done" =>
        \A frames \in FrameSeqs :
            audioIn = StandardWav(frames) =>
                /\ audioOut.ok
                /\ Len(audioOut.samples) = Len(frames)
                /\ \A i \in 1..Len(audioOut.samples) :
                       InUnitRange(audioOut.samples[i])

\* The four bytes at offset i are there and spell the tag
HasTag(bytes, i, tag) == i + 4 <= Len(bytes) /\ FourChars(bytes, i) = tag

\* The file holds the header of a data chunk: the 8 bytes of a chunk header,
\* with id 'data', at a place the chunk sizes lead to from offset 12
RECURSIVE HasDataChunkHeader(_, _)
HasDataChunkHeader(bytes, offset) ==
    IF offset + 8 > Len(bytes) THEN FALSE
    ELSE IF FourChars(bytes, offset) = DATA THEN TRUE
    ELSE LET chunkSize == getUint32(bytes, offset + 4)
         IN  HasDataChunkHeader(bytes, offset + 8 + chunkSize + (chunkSize % 2))

FormatErrors == {NotRiff, NotWave, NoDataChunk}

FailsWithFormatError == ~audioOut.ok /\ audioOut.error \in FormatErrors

\* C18: decoding fails with a format error when bytes 0-3 are not RIFF, when
\* bytes 8-11 are not WAVE, or when the chunk walk from offset 12 reaches the
\* end of the file without meeting a data chunk; and the missing-data-chunk
\* error is raised only for files that contain no data chunk header
C18_FormatErrors ==
    audioPc = "done" =>
        /\ ~HasTag(audioIn, 0, RIFF) => FailsWithFormatError
        /\ ~HasTag(audioIn, 8, WAVE) => FailsWithFormatError
        /\ ~HasDataChunkHeader(audioIn, 12) => FailsWithFormatError
        /\ audioOut.error = NoDataChunk => ~HasDataChunkHeader(audioIn, 12)

\* The length the spec gives: floor(inputLength / (fromRate / toRate)), the
\* quotients being those of the real numbers
RealFloorLength(length, fromRate, toRate) == (length * toRate) \div fromRate

\* C19: for every input length and every pair of different rates, resample
\* returns exactly floor(inputLength / (fromRate / toRate)) samples
C19_LengthIsFloor ==
    (audioPc = "done" /\ audioIn.fromRate # audioIn.toRate)
        => Len(audioOut)
               = RealFloorLength(Len(audioIn.samples), audioIn.fromRate,
                                 audioIn.toRate)

\* C20: resampling from a rate to the same rate returns a sequence of the
\* same length whose every element equals the corresponding input element
C20_SameRateIsIdentity ==
    (audioPc = "done" /\ audioIn.fromRate = audioIn.toRate)
        => /\ Len(audioOut) = Len(audioIn.samples)
           /\ \A i \in 1..Len(audioOut) : audioOut[i] = audioIn.samples[i]

C20_Witness ==
    /\ audioPc = "done"
    /\ audioIn.fromRate = audioIn.toRate
    /\ Len(audioIn.samples) = MaxSamples
    /\ audioIn.samples[1] # audioIn.samples[2]
    /\ audioOut = audioIn.samples

\* The word a byte-level call encodes, after the optional prefix space
ToEncode == IF Val(tokenizer).addPrefixSpace THEN <<SpaceChar>> \o tokWord ELSE tokWord

ByteLevelCall == tokPc = "encoded" /\ Val(tokenizer).isByteLevelBPE

\* C21: in byte-level BPE mode, a word whose byte-level symbol sequence has
\* length 1 gives exactly one id, the vocabulary id of that symbol or the
\* unknown id, and no merge is applied; a sequence of length 0 gives exactly
\* the unknown id
C21_SingleSymbolShortcut ==
    ByteLevelCall =>
        LET tk      == Val(tokenizer)
            symbols == ByteSymbols(tk, ToEncode)
        IN  /\ Len(symbols) = 1 =>
                  /\ tokOut.ids = <<IF symbols[1] \in DOMAIN tk.vocab
                                     THEN tk.vocab[symbols[1]] ELSE tk.unkTokenId>>
                  /\ tokOut.iterations = <<>>
            /\ Len(symbols) = 0 => tokOut.ids = <<tk.unkTokenId>>

C21_Witness ==
    /\ ByteLevelCall
    /\ Len(ByteSymbols(Val(tokenizer), ToEncode)) = 1
    /\ ByteSymbols(Val(tokenizer), ToEncode)[1] \in DOMAIN Val(tokenizer).vocab
    /\ Val(tokenizer).mergeRanks # EmptyMap
    /\ Len(tokOut.ids) = 1

\* The lowest position of a pair in the supplied merges list (from 0), or -1
ListPosition(key) ==
    LET at == {i \in 1..Len(tokJson.merges) : MergeKey(tokJson.merges[i]) = key}
    IN  IF at = {} THEN -1 ELSE SetMin(at) - 1

\* The adjacent pairs of the symbols that the merges list holds
PresentPairs(symbols) ==
    {k \in {PairKey(symbols[i], symbols[i + 1]) : i \in 1..(Len(symbols) - 1)} :
        ListPosition(k) >= 0}

\* C22: each iteration of the merge loop selects, among the adjacent pairs
\* present in the merge table, the pair whose position in the supplied
\* merges list is lowest, merges every non-overlapping occurrence of it from
\* left to right, and the loop stops exactly when no adjacent pair is in the
\* merge table or one symbol remains
C22_LowestPositionFirst ==
    ByteLevelCall =>
        LET its == tokOut.iterations
        IN  /\ \A k \in 1..Len(its) :
                  /\ its[k].pair \in PresentPairs(its[k].before)
                  /\ \A other \in PresentPairs(its[k].before) :
                         ListPosition(its[k].pair) <= ListPosition(other)
                  /\ \E i \in 1..(Len(its[k].before) - 1) :
                         /\ its[k].pair = PairKey(its[k].before[i], its[k].before[i + 1])
                         /\ its[k].after
                                = MergeOccurrences(its[k].before, its[k].before[i],
                                                   its[k].before[i + 1], 0)
                  /\ k < Len(its) => /\ Len(its[k].after) > 1
                                      /\ its[k + 1].before = its[k].after
            /\ its # <<>> =>
                  \/ Len(its[Len(its)].after) = 1
                  \/ PresentPairs(its[Len(its)].after) = {}
            /\ (its = <<>> /\ Len(tokOut.symbols) > 1) =>
                  PresentPairs(tokOut.symbols) = {}

\* The pieces of a WordPiece call cover the word once, from left to right
PiecesCoverWord ==
    LET pieces == tokOut.pieces
    IN  /\ tokWord # <<>> => pieces # <<>>
        /\ pieces # <<>> => /\ pieces[1].start = 0
                             /\ pieces[Len(pieces)].end = Len(tokWord)
        /\ \A k \in 1..Len(pieces) :
               /\ pieces[k].start < pieces[k].end
               /\ k < Len(pieces) => pieces[k + 1].start = pieces[k].end

\* The vocabulary key of the piece of the word from start to end
PieceKey(start, end) ==
    (IF start = 0 THEN <<>> ELSE <<HashChar, HashChar>>) \o Slice(tokWord, start, end)

\* C23: outside byte-level mode, when the whole word is not in the
\* vocabulary, each step emits the id of the longest prefix of the unconsumed
\* suffix that is in the vocabulary (with ## when not at position 0) and
\* advances past it, or, when no prefix matches, emits one unknown id and
\* advances by one character; the pieces cover the word once, left to right
C23_LongestPrefixPieces ==
    (tokPc = "encoded" /\ ~Val(tokenizer).isByteLevelBPE
        /\ tokWord \notin DOMAIN Val(tokenizer).vocab) =>
        LET tk     == Val(tokenizer)
            pieces == tokOut.pieces
        IN  /\ PiecesCoverWord
            /\ Len(tokOut.ids) = Len(pieces)
            /\ \A k \in 1..Len(pieces) :
                   LET matching == {e \in (pieces[k].start + 1)..Len(tokWord) :
                                       PieceKey(pieces[k].start, e) \in DOMAIN tk.vocab}
                   IN  IF matching = {}
                       THEN /\ pieces[k].end = pieces[k].start + 1
                            /\ tokOut.ids[k] = tk.unkTokenId
                       ELSE /\ pieces[k].end = SetMax(matching)
                            /\ tokOut.ids[k]
                                   = tk.vocab[PieceKey(pieces[k].start, pieces[k].end)]

C23_Witness ==
    /\ tokPc = "encoded" /\ ~Val(tokenizer).isByteLevelBPE
    /\ tokWord \notin DOMAIN Val(tokenizer).vocab
    /\ \E k \in 1..Len(tokOut.pieces) : ~tokOut.pieces[k].found
    /\ \E k \in 1..Len(tokOut.pieces) :
           tokOut.pieces[k].found /\ tokOut.pieces[k].start > 0

\* C24: the byte encoder is a bijection from the 256 byte values to 256
\* distinct single code points; the 188 bytes in 33-126, 161-172 and 174-255
\* map to themselves and the remaining 68 bytes map to 256, 257, ..., 323 in
\* ascending byte order (stated of the table as initTokenizer leaves it)
C24_ByteEncoderBijection ==
    tokPc = "ready" =>
        LET encoder == Val(tokenizer).byteEncoder
            self    == (33..126) \cup (161..172) \cup (174..255)
            rest    == (0..255) \ self
        IN  /\ DOMAIN encoder = 0..255
            /\ Cardinality({encoder[b] : b \in 0..255}) = 256
            /\ Cardinality(self) = 188 /\ Cardinality(rest) = 68
            /\ \A b \in self : encoder[b] = b
            /\ \A b \in rest :
                   encoder[b] = 256 + Cardinality({x \in rest : x < b})
            /\ {encoder[b] : b \in rest} = 256..323

C24_Witness ==
    /\ tokPc = "ready"
    /\ Val(tokenizer).byteEncoder[32] = 288
    /\ Val(tokenizer).byteEncoder[0] = 256
    /\ Val(tokenizer).byteEncoder[255] = 255

\* The characters of the symbols, one after the other
RECURSIVE ConcatSymbols(_)
ConcatSymbols(symbols) ==
    IF Len(symbols) = 0 THEN <<>>
    ELSE symbols[1] \o ConcatSymbols([i \in 1..(Len(symbols) - 1) |-> symbols[i + 1]])

\* C29: each iteration of the merge loop that finds a pair strictly
\* decreases the number of symbols, so the call returns, and the
\* concatenation of the final symbols equals that of the initial byte-level
\* symbols
C29_MergeLoopShrinks ==
    (ByteLevelCall /\ tokWord \notin DOMAIN Val(tokenizer).addedTokens) =>
        LET its   == tokOut.iterations
            final == IF its = <<>> THEN tokOut.symbols ELSE its[Len(its)].after
        IN  /\ tokOut.symbols = ByteSymbols(Val(tokenizer), ToEncode)
            /\ \A k \in 1..Len(its) : Len(its[k].after) < Len(its[k].before)
            /\ Len(its) < Len(tokOut.symbols) \/ tokOut.symbols = <<>>
            /\ ConcatSymbols(final) = ConcatSymbols(tokOut.symbols)
            /\ Len(tokOut.ids) = IF tokOut.symbols = <<>> THEN 1 ELSE Len(final)

C29_Witness ==
    /\ ByteLevelCall
    /\ Len(tokOut.iterations) = 2
    /\ Len(tokOut.iterations[2].after) = 1
    /\ ConcatSymbols(tokOut.iterations[2].after) = ConcatSymbols(tokOut.symbols)

\* C30: when the recording has no audioPath (a recording that is not found
\* reads as one without audioPath) or the project is not found, the run
\* returns at the lookups: it performs no persistence write and calls neither
\* transcription, anonymization nor generation, and the status and every
\* other persisted field are unchanged.
C30_EarlyReturnWritesNothing ==
    [][\A p \in Slots :
          (pc[p] = "load" /\ pc'[p] # "load"
             /\ (~IsSome(buildRecording.audioPath) \/ ~IsSome(project))) =>
              /\ pc'[p] = "idle"
              /\ trace[p].calls = {} /\ trace[p].wrote = {} /\ trace[p].statusLog = <<>>
              /\ trace'[p] = trace[p]
              /\ meta' = meta /\ files' = files /\ audioOnDisk' = audioOnDisk
              /\ project' = project]_vars

C30_Witness ==
    /\ started = 1 /\ pc["r1"] = "idle"
    /\ ~IsSome(buildRecording.audioPath) \/ ~IsSome(project)
    /\ meta.status = "pending" /\ files.transcription = None

\* C26: whenever the persisted status is done the recording carries no
\* errorMessage, also when the run that succeeded follows a failed one.
C26_DoneCarriesNoErrorMessage ==
    meta.status = "done" => meta.errorMessage = None

PastLookups(p) == pc[p] \notin {"idle", "load"}

InProgress == {"transcribing", "anonymizing", "processing"}

\* C25: a run that got past the recording and project lookups leaves the
\* recording with status done or error: it does not return or throw to its
\* caller while the persisted status is transcribing, anonymizing or
\* processing.
C25_NoRunEndsInProgress ==
    [][\A p \in Slots :
          (PastLookups(p) /\ pc'[p] = "idle") => meta'.status \notin InProgress]_vars

BusyMessage == Some("Model is already loading")

\* C28: isLoading is true only while a load started by ensureWhisperLoaded
\* is in flight: when a call that started a load finishes (model files
\* missing, load resolved, load rejected) the flag is false again, and a
\* call is refused as busy only when a load was in flight as it entered.
C28_LoadingFlagFollowsLoad ==
    [][/\ isLoading' <=> (LoadsInFlight' # {})
       /\ \A c \in Callers :
             /\ (wPc[c] \in InFlightPcs /\ wPc'[c] = "idle") => ~isLoading'
             /\ (wPc[c] = "idle" /\ wPc'[c] = "idle" /\ wTrace'[c] # wTrace[c]
                   /\ lastLoadError' = BusyMessage /\ ~platformWeb /\ linked)
                  => wTrace'[c].busyAtEntry]_vars

\* A load attempt has failed and finished, and a later request has started
\* a load of its own
C28_Witness ==
    \E c \in Callers, d \in Callers :
        /\ c # d
        /\ wPc[c] = "idle" /\ wTrace[c].startedLoad /\ wTrace[c].result = Some(FALSE)
        /\ wPc[d] = "load" /\ wTrace[d].startedLoad /\ ~wTrace[d].busyAtEntry
        /\ isLoading

\* C27: the model handle is never deleted while a transcribe call on it is
\* in flight, and a load that was in flight when unloadWhisper ran does not
\* leave the model loaded when it finishes.
C27_UnloadIsSafe ==
    [][\A c \in Callers :
          /\ tHandle'[c] # "deleted"
          /\ (wPc[c] = "load" /\ wPc'[c] = "idle" /\ unloadSeen[c])
               => ~IsSome(sttModule')]_vars

====
